---------------------------- MODULE Spec2Model ----------------------------
(***************************************************************************)
(* Arcade drone shooter: the Home session (score, health, stage, status),  *)
(* the GameCanvas simulation (frame loop, spawning, movement, collisions,  *)
(* power-ups) and the useProjectiles hook (firing, charging).              *)
(*                                                                         *)
(* Units.  Time is in milliseconds; every instant is a multiple of 100 ms  *)
(* (the frame times the model draws), so that every product speed * time   *)
(* is a whole number of pixels.  Speeds are kept in thousandths of a pixel *)
(* per millisecond (0.05 px/ms is 50), enemy health and projectile damage  *)
(* in hundredths (health 1 is 100, damage 1.2 is 120), random draws in     *)
(* hundredths (r < 0.3 is r < 30), and the stage timer, which the code     *)
(* keeps in seconds, in milliseconds (180 s is 180000).                    *)
(*                                                                         *)
(* One React render separates two events, so a handler reads the state of  *)
(* the last render (its closure) and queues updates; the queued updates of *)
(* one handler are applied in order when it returns.  An action below is   *)
(* one handler together with the updates it queued.                        *)
(***************************************************************************)
EXTENDS Integers, Sequences, FiniteSets, TLC

VARIABLES
    gameState,          \* Home: score, health, stage, combo, activePowerups, gameStatus, ...
    canvasSize,         \* GameCanvas: measured playfield {width, height}
    enemies,            \* GameCanvas: Enemy[]
    projectiles,        \* useProjectiles: Projectile[]
    powerUps,           \* GameCanvas: PowerUp[] (falling pickups)
    player,             \* GameCanvas: Player
    lastFrameTime,      \* GameCanvas: timestamp of the last frame, 0 before the first
    enemySpawnTimer,    \* GameCanvas: enemy spawn accumulator
    powerUpSpawnTimer,  \* GameCanvas: power-up spawn accumulator
    stageTimer,         \* GameCanvas: stage countdown
    chargeStartTime,    \* useProjectiles: press-down timestamp, 0 for null
    currentChargeLevel, \* useProjectiles: polled charge level
    timeouts,           \* pending setTimeout callbacks: set of [due, kind, arg]
    now,                \* wall clock (Date.now() and the frame timestamp)
    nextId,             \* source of fresh entity ids
    emitted,            \* history: the callbacks and requests of the last step, in order
    pausedFor,          \* history: wall-clock time since the last frame spent in status paused
    bottomCount,        \* history: enemy-reached-bottom events since the last startGame
    decayed,            \* history: frame time of the frames that ran the cooldown step since the last fire request
    lastRequest         \* history: the last fire request, and whether all so far were plain and spaced

vars == <<gameState, canvasSize, enemies, projectiles, powerUps, player,
          lastFrameTime, enemySpawnTimer, powerUpSpawnTimer, stageTimer,
          chargeStartTime, currentChargeLevel, timeouts, now, nextId,
          emitted, pausedFor, bottomCount, decayed, lastRequest>>

canvasVars == <<canvasSize, enemies, projectiles, powerUps, player,
                lastFrameTime, enemySpawnTimer, powerUpSpawnTimer, stageTimer,
                chargeStartTime, currentChargeLevel>>

-----------------------------------------------------------------------------
(* Bounds of the model *)

\* the wall clock stops here
MaxNow == 6000

\* playfields the layout reports (px)
CanvasSizes == {[width |-> 100, height |-> 100]}

\* wall-clock steps between two events
Steps == {500, 2000}

\* the same for the runs that fire
MaxNowFire == 2600

StepsFire == {500}

\* the same for the runs that reach a power-up: one long frame (a tab left
\* in the background), then short ones
MaxNowPickup == 17100

StepsPickup == {500, 12500}

\* the horizon and the frame times of the runs with two pickups
MaxNowDecay == 32100
StepsDecay == {500, 3500, 10000}

\* the horizon of the runs with a pause, and the delays between callbacks
MaxNowPaused == 26600

\* the horizon of the runs with two enemies
MaxNowPair == 3600
StepsPair == {500, 1500}
MaxNowPlayed == 16600
StepsIdle == {2000, 3000, 5000}

\* the same for the runs that use the abilities of the controls
MaxNowAbility == 3100

StepsAbility == {1000}

\* the same for the runs that outlast the stage countdown, in frames a minute
\* apart
MaxNowStage == 240100

StepsStage == {60000}

\* the same for the runs with frames at the pace of the display: one frame
\* held back until the first spawn is near, then frames 20 ms apart
MaxNowFine == 2100

StepsFine == {20, 1880}

\* the same for the runs that watch the frames around the end of the stage
\* countdown: one frame held back for most of it, then frames 500 ms apart
MaxNowExpiry == 181100

StepsExpiry == {500, 177000}

\* the same for the runs in which a press is held across the end of a session
MaxNowRelease == 8100

StepsRelease == {2000}

\* the same for the runs that move the player
MaxNowMove == 1100

StepsMove == {500}

\* the same for the runs that spend the whole special ability charge
MaxNowSpecial == 10100

StepsSpecial == {2500}

\* the stage handed to GameCanvas in the runs with armored enemies
ArmoredStage == 5

\* the largest charge level a fire request carries
maxChargeLevel == 5

\* Math.random() draws, in hundredths
RandDraws == {5, 50}

\* the draws tried on the enemy table: both sides of each threshold
SpawnDraws == {0, 9, 10, 29, 30, 39, 40, 99}

\* the stages tried on the enemy table are 1..MaxStage
MaxStage == 11

\* the enemy list stops growing here in the runs on the enemy table
MaxSpawned == 2

-----------------------------------------------------------------------------
(* Small helpers *)

Max(a, b) == IF a >= b THEN a ELSE b

Min(a, b) == IF a <= b THEN a ELSE b

\* speed (thousandths of px per ms) times dt (ms), in px
Dist(speed, dt) == (speed * dt) \div 1000

\* the subsequence of s at the indices satisfying Keep
FilterIdx(s, Keep(_)) ==
    LET idx == SelectSeq([i \in 1..Len(s) |-> i], Keep)
    IN  [k \in 1..Len(idx) |-> s[idx[k]]]

\* the rectangle test used by every collision check
Overlap(a, b) ==
    /\ a.x < b.x + b.width
    /\ a.x + a.width > b.x
    /\ a.y < b.y + b.height
    /\ a.y + a.height > b.y

NoPowerUp == [active |-> FALSE, duration |-> 0, remaining |-> 0]

-----------------------------------------------------------------------------
(* Home: the session *)

InitialGameState(status) ==
    [score |-> 0, health |-> 3, stage |-> 1, combo |-> 0,
     activePowerups |-> <<>>, gameStatus |-> status,
     specialAbilityCharge |-> 75, specialAbilityCooldown |-> 0,
     shieldCooldown |-> 0, shieldActive |-> FALSE]

\* updateScore
updateScore(gs, points) ==
    [gs EXCEPT !.score = gs.score + points, !.combo = gs.combo + 1]

\* a session that ends one event late
handleEnemyReachedBottomLate(gs) ==
    LET newHealth == gs.health - 1
    IN  [gs EXCEPT !.health = newHealth,
                   !.gameStatus = IF newHealth < 0 THEN "gameOver" ELSE gs.gameStatus,
                   !.combo = 0]

\* handleEnemyReachedBottom
handleEnemyReachedBottom(gs) ==
    LET newHealth == gs.health - 1
    IN  [gs EXCEPT !.health = newHealth,
                   !.gameStatus = IF newHealth <= 0 THEN "gameOver" ELSE gs.gameStatus,
                   !.combo = 0]

\* a stage change that skips a stage
advanceStageSkipping(gs) == [gs EXCEPT !.stage = gs.stage + 2]

\* advanceStage, called by handleTimeExpired
advanceStage(gs) == [gs EXCEPT !.stage = gs.stage + 1]

\* collectPowerup: the state update; its timeout is scheduled by the caller
collectPowerup(gs, type) ==
    [gs EXCEPT !.activePowerups = Append(gs.activePowerups, type)]

\* a toggle that tests for paused instead of playing
pauseStatusInverted(status) == IF status = "paused" THEN "playing" ELSE "paused"

\* a special ability that costs nothing
handleSpecialAbilityFree(gs) == [gs EXCEPT !.specialAbilityCooldown = 5]

\* handleSpecialAbility: the state update (charge || 75 reads 0 as 75); its
\* timeout is scheduled by the caller
handleSpecialAbility(gs) ==
    [gs EXCEPT !.specialAbilityCharge =
                   Max(0, (IF gs.specialAbilityCharge = 0 THEN 75
                           ELSE gs.specialAbilityCharge) - 25),
               !.specialAbilityCooldown = 5]

\* handleShieldActivate: the state update; its two timeouts are scheduled by
\* the caller
handleShieldActivate(gs) == [gs EXCEPT !.shieldActive = TRUE, !.shieldCooldown = 10]

\* callbacks that do nothing while the status is paused
abilityExpiredUnlessPaused(gs, kind) ==
    IF gs.gameStatus = "paused" THEN gs
    ELSE CASE kind = "specialCooldownOff" -> [gs EXCEPT !.specialAbilityCooldown = 0]
           [] kind = "shieldOff"          -> [gs EXCEPT !.shieldActive = FALSE]
           [] kind = "shieldCooldownOff"  -> [gs EXCEPT !.shieldCooldown = 0]

\* the state update of a timeout of handleSpecialAbility or handleShieldActivate
abilityExpired(gs, kind) ==
    CASE kind = "specialCooldownOff" -> [gs EXCEPT !.specialAbilityCooldown = 0]
      [] kind = "shieldOff"          -> [gs EXCEPT !.shieldActive = FALSE]
      [] kind = "shieldCooldownOff"  -> [gs EXCEPT !.shieldCooldown = 0]

\* toggle of pauseGame
pauseStatus(status) == IF status = "playing" THEN "paused" ELSE "playing"

\* one callback of GameCanvas applied to the session
ApplyEvent(gs, ev) ==
    CASE ev.kind = "destroyed"     -> updateScore(gs, ev.arg)
      [] ev.kind = "reachedBottom" -> handleEnemyReachedBottom(gs)
      [] ev.kind = "collected"     -> collectPowerup(gs, ev.arg)
      [] ev.kind = "timeExpired"   -> advanceStage(gs)

RECURSIVE ApplyEvents(_, _)
ApplyEvents(gs, evs) ==
    IF evs = <<>> THEN gs
    ELSE ApplyEvents(ApplyEvent(gs, Head(evs)), Tail(evs))

CountKind(evs, kind) == Len(SelectSeq(evs, LAMBDA e : e.kind = kind))

-----------------------------------------------------------------------------
(* GameCanvas: spawning *)

\* spawn interval of updateEnemySpawning
spawnInterval(stage) == Max(2000 - stage * 100, 500)

\* an enemy table whose armored test comes before the boss test
getEnemyConfigArmoredFirst(currentStage, rand) ==
    LET type == IF currentStage >= 5 /\ rand < 30 THEN "armored"
                ELSE IF currentStage >= 10 /\ rand < 10 THEN "boss"
                ELSE IF currentStage >= 3 /\ rand < 40 THEN "fast"
                ELSE "basic"
    IN  CASE type = "armored" -> [type |-> type, health |-> 300, speed |-> 30, width |-> 50, height |-> 50]
          [] type = "fast"    -> [type |-> type, health |-> 100, speed |-> 100, width |-> 30, height |-> 30]
          [] type = "boss"    -> [type |-> type, health |-> 1000, speed |-> 20, width |-> 80, height |-> 80]
          [] OTHER            -> [type |-> type, health |-> 100, speed |-> 50, width |-> 40, height |-> 40]

\* getEnemyConfigForStage, for the draw rand (hundredths)
getEnemyConfigForStage(currentStage, rand) ==
    LET type == IF currentStage >= 10 /\ rand < 10 THEN "boss"
                ELSE IF currentStage >= 5 /\ rand < 30 THEN "armored"
                ELSE IF currentStage >= 3 /\ rand < 40 THEN "fast"
                ELSE "basic"
    IN  CASE type = "armored" -> [type |-> type, health |-> 300, speed |-> 30, width |-> 50, height |-> 50]
          [] type = "fast"    -> [type |-> type, health |-> 100, speed |-> 100, width |-> 30, height |-> 30]
          [] type = "boss"    -> [type |-> type, health |-> 1000, speed |-> 20, width |-> 80, height |-> 80]
          [] OTHER            -> [type |-> type, health |-> 100, speed |-> 50, width |-> 40, height |-> 40]

\* the x positions drawn for a new entity of the given width: both ends of
\* [0, canvas width - entity width]
SpawnXs(width) == {0, canvasSize.width - width}

\* spawnEnemy: the enemy added, as a sequence of zero or one enemies
spawnEnemy(stage, rand, x, id) ==
    IF canvasSize.width = 0 THEN <<>>
    ELSE LET enemyConfig == getEnemyConfigForStage(stage, rand)
         IN  <<[id |-> id, x |-> x, y |-> -enemyConfig.height,
                type |-> enemyConfig.type, health |-> enemyConfig.health,
                speed |-> enemyConfig.speed, width |-> enemyConfig.width,
                height |-> enemyConfig.height]>>

PowerUpTypes == <<"rapidFire", "shield", "multiShot", "bomb">>

\* spawnPowerUp with getPowerUpConfig: type index k is floor(random * 4) + 1
spawnPowerUp(k, x, id) ==
    IF canvasSize.width = 0 THEN <<>>
    ELSE <<[id |-> id, x |-> x, y |-> -30, type |-> PowerUpTypes[k],
            speed |-> 50, width |-> 30, height |-> 30]>>

-----------------------------------------------------------------------------
(* useProjectiles: firing *)

\* per bullet type: width, height, speed, damage
BulletBase(bulletType) ==
    CASE bulletType = "laser"     -> [width |-> 6, height |-> 30, speed |-> 800, damage |-> 120]
      [] bulletType = "plasma"    -> [width |-> 14, height |-> 14, speed |-> 600, damage |-> 150]
      [] bulletType = "explosive" -> [width |-> 16, height |-> 16, speed |-> 400, damage |-> 200]
      [] OTHER                    -> [width |-> 10, height |-> 20, speed |-> 500, damage |-> 100]

\* a gate that is always open
CanFireAlways(pl) == pl.currentCooldown >= 0

\* the cooldown gate of fireProjectile
CanFire(pl) == ~(pl.currentCooldown > 0)

\* a cooldown where rapidFire takes precedence over the charge
cooldownTimeRapidFirst(pl, isSpecialFire, chargeLevel) ==
    IF isSpecialFire THEN 1000
    ELSE IF pl.powerUps.rapidFire.active THEN 150
    ELSE IF chargeLevel > 0 THEN 500 + chargeLevel * 100
    ELSE 500

\* the cooldown an accepted shot sets
cooldownTime(pl, isSpecialFire, chargeLevel) ==
    IF isSpecialFire THEN 1000
    ELSE IF chargeLevel > 0 THEN 500 + chargeLevel * 100
    ELSE IF pl.powerUps.rapidFire.active THEN 150
    ELSE 500

\* a multiShot that spreads its projectiles by 10 instead of 20
newProjectilesNarrow(pl, isSpecialFire, chargeLevel, id) ==
    LET base == BulletBase(pl.currentBulletType)
        isChargedShot == chargeLevel > 0
        w == IF isSpecialFire THEN base.width * 2
             ELSE IF isChargedShot THEN base.width + chargeLevel * 2 ELSE base.width
        h == IF isSpecialFire THEN (base.height * 3) \div 2
             ELSE IF isChargedShot THEN base.height + chargeLevel * 3 ELSE base.height
        s == IF isSpecialFire THEN 700
             ELSE IF isChargedShot THEN base.speed + chargeLevel * 50 ELSE base.speed
        d == IF isSpecialFire THEN 300
             ELSE IF isChargedShot THEN base.damage + (chargeLevel \div 2) * 100 ELSE base.damage
        rapid == pl.powerUps.rapidFire.active
        speed == IF rapid THEN Min((s * 14) \div 10, 1000) ELSE s
        damage == IF rapid THEN (d * 12) \div 10 ELSE d
        baseProjectile ==
            [id |-> id, x |-> pl.x + pl.width \div 2 - w \div 2, y |-> pl.y - h,
             speed |-> speed, width |-> w, height |-> h,
             isSpecial |-> isSpecialFire, isCharged |-> isChargedShot,
             chargeLevel |-> chargeLevel, damage |-> damage,
             bulletType |-> pl.currentBulletType]
    IN  IF isSpecialFire THEN <<baseProjectile>>
        ELSE IF pl.powerUps.multiShot.active
        THEN <<[baseProjectile EXCEPT !.id = id + 1, !.x = baseProjectile.x - 10],
               [baseProjectile EXCEPT !.id = id + 2],
               [baseProjectile EXCEPT !.id = id + 3, !.x = baseProjectile.x + 10]>>
        ELSE <<baseProjectile>>

\* a shot whose size, speed and damage ignore the charge level
newProjectilesFlat(pl, isSpecialFire, chargeLevel, id) ==
    LET flat == newProjectilesNarrow(pl, isSpecialFire, 0, id)
    IN  [k \in 1..Len(flat) |->
            [flat[k] EXCEPT !.chargeLevel = chargeLevel, !.isCharged = chargeLevel > 0]]

\* the projectiles an accepted shot creates
newProjectiles(pl, isSpecialFire, chargeLevel, id) ==
    LET base == BulletBase(pl.currentBulletType)
        isChargedShot == chargeLevel > 0
        w == IF isSpecialFire THEN base.width * 2
             ELSE IF isChargedShot THEN base.width + chargeLevel * 2 ELSE base.width
        h == IF isSpecialFire THEN (base.height * 3) \div 2
             ELSE IF isChargedShot THEN base.height + chargeLevel * 3 ELSE base.height
        s == IF isSpecialFire THEN 700
             ELSE IF isChargedShot THEN base.speed + chargeLevel * 50 ELSE base.speed
        d == IF isSpecialFire THEN 300
             ELSE IF isChargedShot THEN base.damage + (chargeLevel \div 2) * 100 ELSE base.damage
        rapid == pl.powerUps.rapidFire.active
        speed == IF rapid THEN Min((s * 14) \div 10, 1000) ELSE s
        damage == IF rapid THEN (d * 12) \div 10 ELSE d
        baseProjectile ==
            [id |-> id, x |-> pl.x + pl.width \div 2 - w \div 2, y |-> pl.y - h,
             speed |-> speed, width |-> w, height |-> h,
             isSpecial |-> isSpecialFire, isCharged |-> isChargedShot,
             chargeLevel |-> chargeLevel, damage |-> damage,
             bulletType |-> pl.currentBulletType]
    IN  IF isSpecialFire THEN <<baseProjectile>>
        ELSE IF pl.powerUps.multiShot.active
        THEN <<[baseProjectile EXCEPT !.id = id + 1, !.x = baseProjectile.x - 20],
               [baseProjectile EXCEPT !.id = id + 2],
               [baseProjectile EXCEPT !.id = id + 3, !.x = baseProjectile.x + 20]>>
        ELSE <<baseProjectile>>

\* a charge level without its cap
chargeLevelUncapped(chargeTime) == chargeTime \div 300

\* charge level after holding for chargeTime ms
chargeLevelFor(chargeTime) == Min(chargeTime \div 300, 5)

-----------------------------------------------------------------------------
(* GameCanvas: one frame *)

TimedPowerUps == {"rapidFire", "shield", "multiShot"}

\* updatePowerUps: the power-up record computed from the rendered player
decayPowerUp(powerUp, deltaTime) ==
    IF powerUp.active /\ powerUp.remaining > 0
    THEN IF powerUp.remaining - deltaTime <= 0
         THEN [powerUp EXCEPT !.active = FALSE, !.remaining = 0]
         ELSE [powerUp EXCEPT !.remaining = powerUp.remaining - deltaTime]
    ELSE powerUp

updatePowerUps(pl, deltaTime) ==
    [type \in DOMAIN pl.powerUps |-> decayPowerUp(pl.powerUps[type], deltaTime)]

powerUpUpdated(pl) ==
    \E type \in TimedPowerUps :
        pl.powerUps[type].active /\ pl.powerUps[type].remaining > 0

\* moveEnemies: position after the move, and whether the enemy left by the bottom
enemyNewY(enemy, deltaTime) == enemy.y + Dist(enemy.speed, deltaTime)

enemyCrossed(enemy, deltaTime) == enemyNewY(enemy, deltaTime) > canvasSize.height

moveEnemies(es, deltaTime) ==
    LET kept == SelectSeq(es, LAMBDA e : ~enemyCrossed(e, deltaTime))
    IN  [k \in 1..Len(kept) |-> [kept[k] EXCEPT !.y = enemyNewY(kept[k], deltaTime)]]

\* moveProjectiles
projectileGone(projectile, deltaTime) ==
    projectile.y - Dist(projectile.speed, deltaTime) < -projectile.height

moveProjectiles(ps, deltaTime) ==
    LET kept == SelectSeq(ps, LAMBDA q : ~projectileGone(q, deltaTime))
    IN  [k \in 1..Len(kept) |-> [kept[k] EXCEPT !.y = kept[k].y - Dist(kept[k].speed, deltaTime)]]

\* movePowerUps
movePowerUps(us, deltaTime) ==
    LET kept == SelectSeq(us, LAMBDA u : ~(u.y + Dist(u.speed, deltaTime) > canvasSize.height))
    IN  [k \in 1..Len(kept) |-> [kept[k] EXCEPT !.y = kept[k].y + Dist(kept[k].speed, deltaTime)]]

\* points of the destroyed event
points(type) ==
    CASE type = "armored" -> 30
      [] type = "fast"    -> 20
      [] type = "boss"    -> 100
      [] OTHER            -> 10

\* projectile.damage || 1
damageOf(projectile) == IF projectile.damage = 0 THEN 100 ELSE projectile.damage

\* the projectile x enemy test of checkCollisions, on the rendered lists
Hits(pIndex, eIndex) == Overlap(projectiles[pIndex], enemies[eIndex])

\* the health written for enemy eIndex by projectile pIndex: the rendered
\* enemy's health minus this projectile's damage
healthAfter(pIndex, eIndex) == enemies[eIndex].health - damageOf(projectiles[pIndex])

Lethal(pIndex, eIndex) == Hits(pIndex, eIndex) /\ healthAfter(pIndex, eIndex) <= 0

\* the last projectile, in loop order, that hits enemy eIndex (0 if none):
\* its write to updatedEnemies[eIndex] is the one that stays
lastHitter(eIndex) ==
    LET hitters == {pIndex \in 1..Len(projectiles) : Hits(pIndex, eIndex)}
    IN  IF hitters = {} THEN 0
        ELSE CHOOSE pIndex \in hitters : \A q \in hitters : q <= pIndex

\* a projectile loop that nulls no entry
nulledNever(eIndex) == FALSE

\* updatedEnemies[eIndex] is null after the projectile loop
nulledByProjectile(eIndex) ==
    lastHitter(eIndex) # 0 /\ Lethal(lastHitter(eIndex), eIndex)

\* updatedEnemies[eIndex] after the projectile loop, when it is not null
enemyAfterHits(eIndex) ==
    IF lastHitter(eIndex) = 0 THEN enemies[eIndex]
    ELSE [enemies[eIndex] EXCEPT !.health = healthAfter(lastHitter(eIndex), eIndex)]

\* the destroyed events of the projectile loop, in loop order
destroyedEvents ==
    LET ne == Len(enemies)
        pairs == [k \in 1..(Len(projectiles) * ne) |->
                     <<((k - 1) \div ne) + 1, ((k - 1) % ne) + 1>>]
        lethal == SelectSeq(pairs, LAMBDA pr : Lethal(pr[1], pr[2]))
    IN  [k \in 1..Len(lethal) |->
            [kind |-> "destroyed", arg |-> points(enemies[lethal[k][2]].type)]]

\* updatedProjectiles[pIndex] is null
projectileHit(pIndex) == \E eIndex \in 1..Len(enemies) : Hits(pIndex, eIndex)

\* the player x power-up test
Collected(index) == Overlap(player, powerUps[index])

collectedIdx == SelectSeq([i \in 1..Len(powerUps) |-> i], Collected)

\* applyPowerUp: the power-up record it writes, from the rendered player
applyPowerUp(pl, type) ==
    CASE type = "rapidFire" ->
            [pl.powerUps EXCEPT !.rapidFire = [active |-> TRUE, duration |-> 10000, remaining |-> 10000]]
      [] type = "shield" ->
            [pl.powerUps EXCEPT !.shield = [active |-> TRUE, duration |-> 15000, remaining |-> 15000]]
      [] type = "multiShot" ->
            [pl.powerUps EXCEPT !.multiShot = [active |-> TRUE, duration |-> 8000, remaining |-> 8000]]
      [] OTHER -> pl.powerUps

\* the callbacks of one pickup: those of applyPowerUp, then the one of checkCollisions
pickupEvents(type) ==
    (IF type = "bomb"
     THEN <<[kind |-> "destroyed", arg |-> Len(enemies) * 10], [kind |-> "collected", arg |-> "bomb"]>>
     ELSE <<[kind |-> "collected", arg |-> type]>>)
    \o <<[kind |-> "collected", arg |-> type]>>

RECURSIVE collectedEvents(_)
collectedEvents(idx) ==
    IF idx = <<>> THEN <<>>
    ELSE pickupEvents(powerUps[Head(idx)].type) \o collectedEvents(Tail(idx))

bombCollected == \E k \in 1..Len(collectedIdx) : powerUps[collectedIdx[k]].type = "bomb"

\* the shield test guarding the enemy x player check
shieldBlocks(pl) == pl.shieldActive

\* the enemy x player test
HitsPlayer(eIndex) == ~shieldBlocks(player) /\ Overlap(player, enemies[eIndex])

playerHitEvents ==
    [k \in 1..Len(SelectSeq([i \in 1..Len(enemies) |-> i], HitsPlayer)) |->
        [kind |-> "reachedBottom", arg |-> 0]]

\* the flag that decides whether checkCollisions writes the enemy list back
enemiesDestroyed ==
    \/ \E pIndex \in 1..Len(projectiles), eIndex \in 1..Len(enemies) : Lethal(pIndex, eIndex)
    \/ \E eIndex \in 1..Len(enemies) : HitsPlayer(eIndex)

\* updatedEnemies.filter(Boolean)
updatedEnemies ==
    LET keep == SelectSeq([i \in 1..Len(enemies) |-> i],
                          LAMBDA i : ~nulledByProjectile(i) /\ ~HitsPlayer(i))
    IN  [k \in 1..Len(keep) |-> enemyAfterHits(keep[k])]

-----------------------------------------------------------------------------
(* Initial state: Home and GameCanvas as constructed, before the layout is  *)
(* measured                                                                *)

InitialPlayer ==
    [x |-> 0, y |-> 0, width |-> 60, height |-> 60,
     cooldown |-> 500, currentCooldown |-> 0,
     currentBulletType |-> "standard",
     shieldActive |-> FALSE, shieldDuration |-> 0,
     powerUps |-> [rapidFire |-> NoPowerUp, shield |-> NoPowerUp, multiShot |-> NoPowerUp]]

InitWith(stage) ==
    /\ gameState = [InitialGameState("menu") EXCEPT !.stage = stage]
    /\ canvasSize = [width |-> 0, height |-> 0]
    /\ enemies = <<>>
    /\ projectiles = <<>>
    /\ powerUps = <<>>
    /\ player = InitialPlayer
    /\ lastFrameTime = 0
    /\ enemySpawnTimer = 0
    /\ powerUpSpawnTimer = 0
    /\ stageTimer = 180000
    /\ chargeStartTime = 0
    /\ currentChargeLevel = 0
    /\ timeouts = {}
    /\ now = 100
    /\ nextId = 1
    /\ emitted = <<>>
    /\ pausedFor = 0
    /\ bottomCount = 0
    /\ decayed = 0
    /\ lastRequest = [any |-> FALSE, since |-> 0, spaced |-> FALSE, wall |-> TRUE, ticks |-> TRUE]

Init == InitWith(1)

\* the state once the mount effect has run updateCanvasSize
InitMeasured ==
    \E size \in CanvasSizes :
        /\ canvasSize = size
        /\ player = [InitialPlayer EXCEPT !.x = size.width \div 2 - InitialPlayer.width \div 2,
                                          !.y = size.height - InitialPlayer.height - 10]
        /\ gameState = InitialGameState("menu")
        /\ enemies = <<>>
        /\ projectiles = <<>>
        /\ powerUps = <<>>
        /\ lastFrameTime = 0
        /\ enemySpawnTimer = 0
        /\ powerUpSpawnTimer = 0
        /\ stageTimer = 180000
        /\ chargeStartTime = 0
        /\ currentChargeLevel = 0
        /\ timeouts = {}
        /\ now = 100
        /\ nextId = 1
        /\ emitted = <<>>
        /\ pausedFor = 0
        /\ bottomCount = 0
        /\ decayed = 0
        /\ lastRequest = [any |-> FALSE, since |-> 0, spaced |-> FALSE, wall |-> TRUE, ticks |-> TRUE]

\* a session in play on a measured playfield, with rapidFire and multiShot
\* collected or not
InitShot ==
    \E size \in CanvasSizes, rapid \in BOOLEAN, multi \in BOOLEAN :
        LET placed == [InitialPlayer EXCEPT
                          !.x = size.width \div 2 - InitialPlayer.width \div 2,
                          !.y = size.height - InitialPlayer.height - 10]
            withRapid == IF rapid THEN applyPowerUp(placed, "rapidFire") ELSE placed.powerUps
            withBoth == IF multi
                        THEN applyPowerUp([placed EXCEPT !.powerUps = withRapid], "multiShot")
                        ELSE withRapid
        IN  /\ canvasSize = size
            /\ player = [placed EXCEPT !.powerUps = withBoth]
            /\ gameState = InitialGameState("playing")
            /\ enemies = <<>>
            /\ projectiles = <<>>
            /\ powerUps = <<>>
            /\ lastFrameTime = 0
            /\ enemySpawnTimer = 0
            /\ powerUpSpawnTimer = 0
            /\ stageTimer = 180000
            /\ chargeStartTime = 0
            /\ currentChargeLevel = 0
            /\ timeouts = {}
            /\ now = 100
            /\ nextId = 1
            /\ emitted = <<>>
            /\ pausedFor = 0
            /\ bottomCount = 0
            /\ decayed = 0
            /\ lastRequest = [any |-> FALSE, since |-> 0, spaced |-> FALSE, wall |-> TRUE, ticks |-> TRUE]

\* the bullet kinds GameCanvas accepts as initialBulletType
BulletTypes == {"standard", "laser", "plasma", "explosive"}

\* the state of InitShot for every bullet kind
InitKinds ==
    \E size \in CanvasSizes, rapid \in BOOLEAN, multi \in BOOLEAN, initialBulletType \in BulletTypes :
        LET placed == [InitialPlayer EXCEPT
                          !.currentBulletType = initialBulletType,
                          !.x = size.width \div 2 - InitialPlayer.width \div 2,
                          !.y = size.height - InitialPlayer.height - 10]
            withRapid == IF rapid THEN applyPowerUp(placed, "rapidFire") ELSE placed.powerUps
            withBoth == IF multi
                        THEN applyPowerUp([placed EXCEPT !.powerUps = withRapid], "multiShot")
                        ELSE withRapid
        IN  /\ canvasSize = size
            /\ player = [placed EXCEPT !.powerUps = withBoth]
            /\ gameState = InitialGameState("playing")
            /\ enemies = <<>>
            /\ projectiles = <<>>
            /\ powerUps = <<>>
            /\ lastFrameTime = 0
            /\ enemySpawnTimer = 0
            /\ powerUpSpawnTimer = 0
            /\ stageTimer = 180000
            /\ chargeStartTime = 0
            /\ currentChargeLevel = 0
            /\ timeouts = {}
            /\ now = 100
            /\ nextId = 1
            /\ emitted = <<>>
            /\ pausedFor = 0
            /\ bottomCount = 0
            /\ decayed = 0
            /\ lastRequest = [any |-> FALSE, since |-> 0, spaced |-> FALSE, wall |-> TRUE, ticks |-> TRUE]

historyKept == <<pausedFor, bottomCount, decayed, lastRequest>>

-----------------------------------------------------------------------------
(* Home: the buttons *)

\* Start Game (menu screen) and Play Again (game-over screen)
startGame ==
    /\ gameState.gameStatus \in {"menu", "gameOver"}
    /\ gameState' = InitialGameState("playing")
    /\ bottomCount' = 0
    /\ emitted' = <<[kind |-> "startGame", arg |-> 0]>>
    /\ UNCHANGED <<canvasVars, timeouts, now, nextId, pausedFor, decayed, lastRequest>>

\* pauseGame: Resume (pause screen) and the onPause handler given to the HUD
pauseGame ==
    /\ gameState' = [gameState EXCEPT !.gameStatus = pauseStatus(gameState.gameStatus)]
    /\ emitted' = <<>>
    /\ UNCHANGED <<canvasVars, timeouts, now, nextId, historyKept>>

\* Main Menu (game-over screen) and Quit Game (pause screen)
setStatusMenu ==
    /\ gameState.gameStatus \in {"gameOver", "paused"}
    /\ gameState' = [gameState EXCEPT !.gameStatus = "menu"]
    /\ emitted' = <<>>
    /\ UNCHANGED <<canvasVars, timeouts, now, nextId, historyKept>>

\* a setTimeout callback scheduled by collectPowerup comes due
powerupTimeout ==
    \E t \in timeouts :
        /\ t.due <= now
        /\ t.kind = "expirePowerup"
        /\ gameState' = [gameState EXCEPT !.activePowerups =
                            SelectSeq(gameState.activePowerups, LAMBDA q : q # t.arg)]
        /\ timeouts' = timeouts \ {t}
        /\ emitted' = <<>>
        /\ UNCHANGED <<canvasVars, now, nextId, historyKept>>

-----------------------------------------------------------------------------
(* GameControls, wired to the handlers of Home *)

\* slider positions reported through onMove
SliderPositions == {0, 100}

\* the special button: GameControls.handleSpecialAbility, then the handler
\* of Home; a request that fails the test of the controls changes nothing
controlsSpecialAbility ==
    LET accepted == /\ gameState.specialAbilityCooldown = 0
                    /\ gameState.specialAbilityCharge >= 25
                    /\ gameState.gameStatus = "playing"
    IN  /\ gameState' = IF accepted THEN handleSpecialAbility(gameState) ELSE gameState
        /\ timeouts' = IF accepted
                       THEN timeouts \cup {[due |-> now + 5000, kind |-> "specialCooldownOff", arg |-> ""]}
                       ELSE timeouts
        /\ emitted' = <<[kind |-> "special", arg |-> IF accepted THEN 1 ELSE 0]>>
        /\ UNCHANGED <<canvasVars, now, nextId, historyKept>>

\* the shield button, enabled while the shield cooldown is 0 and the status
\* is playing: the handler of Home
controlsShield ==
    /\ gameState.shieldCooldown = 0
    /\ gameState.gameStatus = "playing"
    /\ gameState' = handleShieldActivate(gameState)
    /\ timeouts' = timeouts \cup {[due |-> now + 3000, kind |-> "shieldOff", arg |-> ""],
                                  [due |-> now + 10000, kind |-> "shieldCooldownOff", arg |-> ""]}
    /\ emitted' = <<[kind |-> "shield", arg |-> 1]>>
    /\ UNCHANGED <<canvasVars, now, nextId, historyKept>>

\* the fire button: GameControls.handleShoot, then handleShoot of Home, which
\* only logs
controlsShoot ==
    /\ gameState.gameStatus = "playing"
    /\ emitted' = <<[kind |-> "shoot", arg |-> 1]>>
    /\ UNCHANGED <<gameState, canvasVars, timeouts, now, nextId, historyKept>>

\* the slider: onMove, then handleMove of Home, which only logs
controlsMove ==
    \E position \in SliderPositions :
        /\ emitted' = <<[kind |-> "move", arg |-> position]>>
        /\ UNCHANGED <<gameState, canvasVars, timeouts, now, nextId, historyKept>>

\* a setTimeout callback of handleSpecialAbility or handleShieldActivate comes due
abilityTimeout ==
    \E t \in timeouts :
        /\ t.due <= now
        /\ t.kind \in {"specialCooldownOff", "shieldOff", "shieldCooldownOff"}
        /\ gameState' = abilityExpired(gameState, t.kind)
        /\ timeouts' = timeouts \ {t}
        /\ emitted' = <<>>
        /\ UNCHANGED <<canvasVars, now, nextId, historyKept>>

-----------------------------------------------------------------------------
(* The wall clock *)

\* Time passes by d ms.  While the status is playing a frame is requested,
\* so it runs before more time passes; a due timeout runs before time passes.
Advance(d, horizon) ==
    /\ d > 0
    /\ now + d <= horizon
    /\ gameState.gameStatus = "playing" => lastFrameTime = now
    /\ \A t \in timeouts : t.due >= now + d
    /\ now' = now + d
    /\ pausedFor' = IF gameState.gameStatus = "paused" THEN pausedFor + d ELSE pausedFor
    /\ lastRequest' = [lastRequest EXCEPT !.since = Min(lastRequest.since + d, 500)]
    /\ emitted' = <<>>
    /\ UNCHANGED <<gameState, canvasVars, timeouts, nextId, bottomCount, decayed>>

-----------------------------------------------------------------------------
(* GameCanvas: layout and pointer *)

\* updateCanvasSize: the mount effect and the resize listener
updateCanvasSize ==
    \E size \in CanvasSizes :
        /\ canvasSize' = size
        /\ player' = [player EXCEPT !.x = size.width \div 2 - player.width \div 2,
                                    !.y = size.height - player.height - 10]
        /\ emitted' = <<>>
        /\ UNCHANGED <<gameState, enemies, projectiles, powerUps, lastFrameTime,
                       enemySpawnTimer, powerUpSpawnTimer, stageTimer, chargeStartTime,
                       currentChargeLevel, timeouts, now, nextId, historyKept>>

\* pointer positions tried by handlePointerMove, as the newX it computes
MoveTargets == {-30, 90}

\* the same with a position inside the playfield range
MoveTargetsInside == MoveTargets \cup {10}

\* a move that does not clamp
clampedXFree(newX) == newX

\* movePlayer
clampedX(newX) == Max(0, Min(canvasSize.width - player.width, newX))

movePlayer(newX) ==
    /\ canvasSize.width # 0
    /\ player' = [player EXCEPT !.x = clampedX(newX)]
    /\ emitted' = <<>>
    /\ UNCHANGED <<gameState, canvasSize, enemies, projectiles, powerUps, lastFrameTime,
                   enemySpawnTimer, powerUpSpawnTimer, stageTimer, chargeStartTime,
                   currentChargeLevel, timeouts, now, nextId, historyKept>>

-----------------------------------------------------------------------------
(* useProjectiles: the fire handlers *)

\* a fire request that the claims call plain: uncharged, not special, bullet
\* kind standard, no power-up active, status playing
Plain(isSpecialFire, chargeLevel) ==
    /\ ~isSpecialFire
    /\ chargeLevel = 0
    /\ player.currentBulletType = "standard"
    /\ \A type \in TimedPowerUps : ~player.powerUps[type].active
    /\ gameState.gameStatus = "playing"

\* fireProjectile
fireProjectile(isSpecialFire, chargeLevel) ==
    LET created == IF CanFire(player)
                   THEN newProjectiles(player, isSpecialFire, chargeLevel, nextId)
                   ELSE <<>>
        first == ~lastRequest.any
    IN  /\ projectiles' = projectiles \o created
        /\ player' = IF CanFire(player)
                     THEN [player EXCEPT !.currentCooldown =
                              cooldownTime(player, isSpecialFire, chargeLevel)]
                     ELSE player
        /\ nextId' = IF CanFire(player) THEN nextId + 4 ELSE nextId
        /\ emitted' = <<[kind |-> "fire", arg |-> Len(created)]>>
        /\ decayed' = 0
        /\ lastRequest' =
              [any    |-> TRUE,
               since  |-> 0,
               spaced |-> ~first /\ decayed >= 500,
               wall   |-> /\ lastRequest.wall
                          /\ Plain(isSpecialFire, chargeLevel)
                          /\ first \/ lastRequest.since >= 500,
               ticks  |-> /\ lastRequest.ticks
                          /\ Plain(isSpecialFire, chargeLevel)
                          /\ first \/ decayed >= 500]

\* handlePointerDown: press, charging starts
handlePointerDown ==
    /\ gameState.gameStatus = "playing"
    /\ chargeStartTime' = now
    /\ currentChargeLevel' = 0
    /\ emitted' = <<>>
    /\ UNCHANGED <<gameState, canvasSize, enemies, projectiles, powerUps, player,
                   lastFrameTime, enemySpawnTimer, powerUpSpawnTimer, stageTimer,
                   timeouts, now, nextId, historyKept>>

\* handlePointerUp: release, the shot is requested with the charge reached
handlePointerUp ==
    /\ gameState.gameStatus = "playing"
    /\ chargeStartTime # 0
    /\ fireProjectile(FALSE, chargeLevelFor(now - chargeStartTime))
    /\ chargeStartTime' = 0
    /\ currentChargeLevel' = 0
    /\ UNCHANGED <<gameState, canvasSize, enemies, powerUps, lastFrameTime,
                   enemySpawnTimer, powerUpSpawnTimer, stageTimer, timeouts, now,
                   pausedFor, bottomCount>>

\* handlePointerUp outside the playing status: the release returns at once
handlePointerUpIgnored ==
    /\ gameState.gameStatus # "playing"
    /\ emitted' = <<[kind |-> "release", arg |-> 0]>>
    /\ UNCHANGED <<gameState, canvasVars, timeouts, now, nextId, historyKept>>

\* the charge interval: while a press is held the level shown is recomputed
chargePoll ==
    /\ chargeStartTime # 0
    /\ currentChargeLevel' = chargeLevelFor(now - chargeStartTime)
    /\ emitted' = <<>>
    /\ UNCHANGED <<gameState, canvasSize, enemies, projectiles, powerUps, player,
                   lastFrameTime, enemySpawnTimer, powerUpSpawnTimer, stageTimer,
                   chargeStartTime, timeouts, now, nextId, historyKept>>

\* handleSpecialFire (defined by GameCanvas; isPaused is false and gameActive true)
handleSpecialFire ==
    /\ fireProjectile(TRUE, 0)
    /\ UNCHANGED <<gameState, canvasSize, enemies, powerUps, lastFrameTime,
                   enemySpawnTimer, powerUpSpawnTimer, stageTimer, chargeStartTime,
                   currentChargeLevel, timeouts, now, pausedFor, bottomCount>>

\* fireProjectile called with any arguments
fireRequest ==
    \E isSpecialFire \in BOOLEAN, chargeLevel \in 0..maxChargeLevel :
        /\ fireProjectile(isSpecialFire, chargeLevel)
        /\ UNCHANGED <<gameState, canvasSize, enemies, powerUps, lastFrameTime,
                       enemySpawnTimer, powerUpSpawnTimer, stageTimer, chargeStartTime,
                       currentChargeLevel, timeouts, now, pausedFor, bottomCount>>

\* spawnEnemy called on its own, with any draw
spawnEnemyDraw ==
    \E rand \in SpawnDraws :
    \E x \in SpawnXs(getEnemyConfigForStage(gameState.stage, rand).width) :
        /\ Len(enemies) < MaxSpawned
        /\ canvasSize.width # 0
        /\ enemies' = enemies \o spawnEnemy(gameState.stage, rand, x, nextId)
        /\ nextId' = nextId + 1
        /\ emitted' = <<[kind |-> "spawn", arg |-> rand]>>
        /\ UNCHANGED <<gameState, canvasSize, projectiles, powerUps, player, lastFrameTime,
                       enemySpawnTimer, powerUpSpawnTimer, stageTimer, chargeStartTime,
                       currentChargeLevel, timeouts, now, historyKept>>

-----------------------------------------------------------------------------
(* GameCanvas: gameLoop and updateGameState *)

\* the callbacks of moveEnemies, one per enemy that left by the bottom
crossedEvents(es, deltaTime) ==
    [k \in 1..Len(SelectSeq(es, LAMBDA e : enemyCrossed(e, deltaTime))) |->
        [kind |-> "reachedBottom", arg |-> 0]]

\* the power-up record the pickups of this frame leave: every applyPowerUp
\* starts from the rendered player, so the last pickup decides
appliedPowerUps ==
    applyPowerUp(player, powerUps[collectedIdx[Len(collectedIdx)]].type)

\* the timeouts collectPowerup schedules for the collected events
collectTimeouts(evs) ==
    {[due |-> now + 10000, kind |-> "expirePowerup", arg |-> evs[k].arg] :
        k \in {i \in 1..Len(evs) : evs[i].kind = "collected"}}

\* an expiry frame that goes on to the cooldown step
expiryFrameCooling(newTime) ==
    /\ stageTimer' = newTime
    /\ gameState' = advanceStage(gameState)
    /\ emitted' = <<[kind |-> "timeExpired", arg |-> 0]>>
    /\ player' = [player EXCEPT !.currentCooldown = 0]
    /\ UNCHANGED <<canvasSize, enemies, projectiles, powerUps,
                   enemySpawnTimer, powerUpSpawnTimer, chargeStartTime,
                   currentChargeLevel, timeouts, nextId, bottomCount, decayed,
                   lastRequest>>

\* the frame whose stage countdown runs out: the countdown is stored, the
\* time-expired callback runs, and updateGameState returns
expiryFrame(newTime) ==
    /\ stageTimer' = newTime
    /\ gameState' = advanceStage(gameState)
    /\ emitted' = <<[kind |-> "timeExpired", arg |-> 0]>>
    /\ UNCHANGED <<canvasSize, enemies, projectiles, powerUps, player,
                   enemySpawnTimer, powerUpSpawnTimer, chargeStartTime,
                   currentChargeLevel, timeouts, nextId, bottomCount, decayed,
                   lastRequest>>

\* every other frame: spawning, cooldown, power-up durations, movement, collisions
fullFrame(deltaTime, rand, ex, draw, k, ux) ==
    LET stage == gameState.stage
        spawnE == enemySpawnTimer + deltaTime >= spawnInterval(stage)
        newEnemy == IF spawnE THEN spawnEnemy(stage, rand, ex, nextId) ELSE <<>>
        checkU == powerUpSpawnTimer + deltaTime >= 15000
        newPowerUp == IF checkU /\ draw < 30 THEN spawnPowerUp(k, ux, nextId + 1) ELSE <<>>
        cooled == IF player.currentCooldown > 0
                  THEN [player EXCEPT !.currentCooldown = Max(0, player.currentCooldown - deltaTime)]
                  ELSE player
        timed == IF powerUpUpdated(player)
                 THEN [cooled EXCEPT !.powerUps = updatePowerUps(player, deltaTime)]
                 ELSE cooled
        picked == collectedIdx # <<>>
        events == destroyedEvents \o collectedEvents(collectedIdx) \o playerHitEvents
                      \o crossedEvents(enemies \o newEnemy, deltaTime)
    IN  /\ enemySpawnTimer' = IF spawnE THEN 0 ELSE enemySpawnTimer + deltaTime
        /\ powerUpSpawnTimer' = IF checkU THEN 0 ELSE powerUpSpawnTimer + deltaTime
        /\ player' = IF picked THEN [timed EXCEPT !.powerUps = appliedPowerUps] ELSE timed
        /\ enemies' = IF enemiesDestroyed THEN updatedEnemies
                      ELSE IF bombCollected THEN <<>>
                      ELSE moveEnemies(enemies \o newEnemy, deltaTime)
        /\ projectiles' = IF \E pIndex \in 1..Len(projectiles) : projectileHit(pIndex)
                          THEN FilterIdx(projectiles, LAMBDA i : ~projectileHit(i))
                          ELSE moveProjectiles(projectiles, deltaTime)
        /\ powerUps' = IF picked
                       THEN FilterIdx(powerUps, LAMBDA i : ~Collected(i))
                       ELSE movePowerUps(powerUps \o newPowerUp, deltaTime)
        /\ gameState' = ApplyEvents(gameState, events)
        /\ timeouts' = timeouts \cup collectTimeouts(events)
        /\ nextId' = nextId + Len(newEnemy) + 2 * Len(newPowerUp)
        /\ emitted' = events
        /\ bottomCount' = bottomCount + CountKind(events, "reachedBottom")
        /\ decayed' = Min(decayed + deltaTime, 500)
        /\ UNCHANGED <<canvasSize, chargeStartTime, currentChargeLevel, lastRequest>>
        /\ IF stageTimer > 0 THEN stageTimer' = stageTimer - deltaTime
                             ELSE UNCHANGED stageTimer

\* the Math.random() draws of one frame; a draw the frame does not make is
\* fixed, so that it does not multiply the frame's outcomes
frameDraws(deltaTime) ==
    LET spawnE == enemySpawnTimer + deltaTime >= spawnInterval(gameState.stage)
                      /\ canvasSize.width # 0
        checkU == powerUpSpawnTimer + deltaTime >= 15000
    IN  \E rand \in IF spawnE THEN RandDraws ELSE {0} :
        \E ex \in IF spawnE THEN SpawnXs(getEnemyConfigForStage(gameState.stage, rand).width)
                             ELSE {0} :
        \E draw \in IF checkU THEN RandDraws ELSE {0} :
        \E k \in IF checkU /\ draw < 30 /\ canvasSize.width # 0
                      THEN 1..Len(PowerUpTypes) ELSE {1} :
        \E ux \in IF checkU /\ draw < 30 /\ canvasSize.width # 0
                       THEN SpawnXs(30) ELSE {0} :
            fullFrame(deltaTime, rand, ex, draw, k, ux)

\* a loop that stops in the menu only
LoopRunsUnlessMenu(status) == status # "menu"

\* the guard of the game loop effect (isPaused is false and gameActive true)
LoopRuns(status) == status = "playing"

\* gameLoop: one animation frame, at timestamp now
Tick ==
    /\ LoopRuns(gameState.gameStatus)
    /\ now > lastFrameTime
    /\ lastFrameTime' = now
    /\ pausedFor' = 0
    /\ UNCHANGED now
    /\ IF lastFrameTime = 0
       THEN /\ emitted' = <<>>
            /\ UNCHANGED <<gameState, canvasSize, enemies, projectiles, powerUps, player,
                           enemySpawnTimer, powerUpSpawnTimer, stageTimer, chargeStartTime,
                           currentChargeLevel, timeouts, nextId, bottomCount, decayed,
                           lastRequest>>
       ELSE LET deltaTime == now - lastFrameTime
            IN  IF stageTimer > 0 /\ stageTimer - deltaTime <= 0
                THEN expiryFrame(stageTimer - deltaTime)
                ELSE frameDraws(deltaTime)

-----------------------------------------------------------------------------
(* Specification *)

Next ==
    \/ startGame
    \/ pauseGame
    \/ setStatusMenu
    \/ powerupTimeout
    \/ \E d \in Steps : Advance(d, MaxNow)
    \/ updateCanvasSize
    \/ \E newX \in MoveTargets : movePlayer(newX)
    \/ handlePointerDown
    \/ handlePointerUp
    \/ chargePoll
    \/ handleSpecialFire
    \/ controlsSpecialAbility
    \/ controlsShield
    \/ controlsShoot
    \/ controlsMove
    \/ abilityTimeout
    \/ handlePointerUpIgnored
    \/ spawnEnemyDraw
    \/ Tick

Spec == Init /\ [][Next]_vars

NextSession ==
    \/ startGame
    \/ pauseGame
    \/ setStatusMenu
    \/ \E d \in Steps : Advance(d, MaxNow)
    \/ updateCanvasSize
    \/ \E newX \in MoveTargets : movePlayer(newX)
    \/ Tick

SpecSession == Init /\ [][NextSession]_vars

\* firing: finer frames, a shorter run
NextFire ==
    \/ startGame
    \/ \E d \in StepsFire : Advance(d, MaxNowFire)
    \/ updateCanvasSize
    \/ handlePointerDown
    \/ handlePointerUp
    \/ chargePoll
    \/ handleSpecialFire
    \/ Tick

SpecFire == Init /\ [][NextFire]_vars

\* single shots: every argument of fireProjectile, with and without power-ups
NextShot ==
    \/ fireRequest
    \/ \E d \in StepsFire : Advance(d, MaxNowFire)
    \/ Tick

SpecShot == InitShot /\ [][NextShot]_vars

\* the enemy table: GameCanvas under every stage, spawning with every draw
InitStages == \E stage \in 1..MaxStage : InitWith(stage)

NextSpawn ==
    \/ updateCanvasSize
    \/ spawnEnemyDraw

SpecSpawn == InitStages /\ [][NextSpawn]_vars

\* single shots of every bullet kind
SpecKinds == InitKinds /\ [][NextShot]_vars

\* shots and moves in frames at the pace of the display; the frame that is held
\* back is the one before the spawn countdown has started
HeldBack == enemies = <<>> /\ enemySpawnTimer = 0

NextFine ==
    \/ fireRequest
    \/ \E newX \in MoveTargets : movePlayer(newX)
    \/ \E d \in StepsFine : (d = 20 <=> ~HeldBack) /\ Advance(d, MaxNowFine)
    \/ Tick

SpecFine == InitShot /\ [][NextFine]_vars

\* the end of the stage countdown with shots and enemies in the playfield;
\* the frame that is held back is the one before the countdown has started
CountdownIdle == stageTimer = 180000

NextExpiry ==
    \/ fireRequest
    \/ \E d \in StepsExpiry : (d = 500 <=> ~CountdownIdle) /\ Advance(d, MaxNowExpiry)
    \/ Tick

SpecExpiry == InitShot /\ [][NextExpiry]_vars

\* presses and releases across sessions
NextRelease ==
    \/ startGame
    \/ \E d \in StepsRelease : Advance(d, MaxNowRelease)
    \/ handlePointerDown
    \/ handlePointerUp
    \/ handlePointerUpIgnored
    \/ Tick

SpecRelease == InitMeasured /\ [][NextRelease]_vars

\* abilities: the buttons of the controls, their timeouts, pauses and restarts
NextAbility ==
    \/ startGame
    \/ pauseGame
    \/ setStatusMenu
    \/ \E d \in StepsAbility : Advance(d, MaxNowAbility)
    \/ controlsSpecialAbility
    \/ controlsShield
    \/ controlsShoot
    \/ controlsMove
    \/ abilityTimeout
    \/ Tick

SpecAbility == InitMeasured /\ [][NextAbility]_vars

\* the special ability alone, long enough to spend its whole charge
NextSpecial ==
    \/ startGame
    \/ pauseGame
    \/ setStatusMenu
    \/ \E d \in StepsSpecial : Advance(d, MaxNowSpecial)
    \/ controlsSpecialAbility
    \/ abilityTimeout
    \/ Tick

SpecSpecial == InitMeasured /\ [][NextSpecial]_vars

\* stages: sessions that outlast the stage countdown
NextStage ==
    \/ startGame
    \/ pauseGame
    \/ setStatusMenu
    \/ \E d \in StepsStage : Advance(d, MaxNowStage)
    \/ Tick

SpecStage == InitMeasured /\ [][NextStage]_vars

\* movement: layout, pointer moves and frames
NextMove ==
    \/ startGame
    \/ pauseGame
    \/ \E d \in StepsMove : Advance(d, MaxNowMove)
    \/ updateCanvasSize
    \/ \E newX \in MoveTargetsInside : movePlayer(newX)
    \/ Tick

SpecMove == Init /\ [][NextMove]_vars

\* armored enemies: GameCanvas under a session at stage 5, with firing
NextArmored ==
    \/ pauseGame
    \/ \E d \in StepsFire : Advance(d, MaxNowFire)
    \/ updateCanvasSize
    \/ handlePointerDown
    \/ handlePointerUp
    \/ Tick

SpecArmored == InitWith(ArmoredStage) /\ [][NextArmored]_vars

\* GameCanvas handed the status playing and stage 5, once the mount effect
\* has measured the playfield
InitPair ==
    \E size \in CanvasSizes :
        /\ gameState = [InitialGameState("playing") EXCEPT !.stage = ArmoredStage]
        /\ canvasSize = size
        /\ player = [InitialPlayer EXCEPT !.x = size.width \div 2 - InitialPlayer.width \div 2,
                                          !.y = size.height - InitialPlayer.height - 10]
        /\ enemies = <<>>
        /\ projectiles = <<>>
        /\ powerUps = <<>>
        /\ lastFrameTime = 0
        /\ enemySpawnTimer = 0
        /\ powerUpSpawnTimer = 0
        /\ stageTimer = 180000
        /\ chargeStartTime = 0
        /\ currentChargeLevel = 0
        /\ timeouts = {}
        /\ now = 100
        /\ nextId = 1
        /\ emitted = <<>>
        /\ pausedFor = 0
        /\ bottomCount = 0
        /\ decayed = 0
        /\ lastRequest = [any |-> FALSE, since |-> 0, spaced |-> FALSE, wall |-> TRUE, ticks |-> TRUE]

\* two enemies on the playfield: frames long enough for the second spawn,
\* some of them slow, with firing
NextPair ==
    \/ \E d \in StepsPair : Advance(d, MaxNowPair)
    \/ handlePointerDown
    \/ handlePointerUp
    \/ Tick

SpecPair == InitPair /\ [][NextPair]_vars

\* pickups: a run long enough for the power-up spawner, without firing,
\* started once the mount effect has measured the playfield
NextPickup ==
    \/ startGame
    \/ \E d \in StepsPickup : Advance(d, MaxNowPickup)
    \/ \E newX \in MoveTargets : movePlayer(newX)
    \/ Tick

SpecPickup == InitMeasured /\ [][NextPickup]_vars

\* no power-up is falling and the spawner has just been reset
SpawnerIdle == powerUps = <<>> /\ powerUpSpawnTimer <= 1000

\* two pickups: a run long enough for the power-up spawner to fire twice;
\* the long frame is taken while the spawner is idle, short frames otherwise
NextDecay ==
    \/ startGame
    \/ \E d \in StepsDecay : (d = 500 <=> ~SpawnerIdle) /\ Advance(d, MaxNowDecay)
    \/ powerupTimeout
    \/ Tick

SpecDecay == InitMeasured /\ [][NextDecay]_vars

\* the time steps of the runs with a pause: 500 ms frames up to MaxNowPlayed
\* while the status is playing, the delays between the callbacks otherwise
PausedStep(d) ==
    IF gameState.gameStatus = "playing"
    THEN d = 500 /\ now + d <= MaxNowPlayed
    ELSE d \in StepsIdle

\* a session 16 s into play, as SpecDecay reaches it: the first power-up,
\* spawned at 15.1 s, has fallen to the player's height and is collected by
\* the frame that is due
InitPickup ==
    \E k \in 1..Len(PowerUpTypes), ux \in {70} :
        /\ canvasSize = [width |-> 100, height |-> 100]
        /\ player = [InitialPlayer EXCEPT !.x = 20, !.y = 30]
        /\ gameState = InitialGameState("playing")
        /\ enemies = <<>>
        /\ projectiles = <<>>
        /\ powerUps = <<[id |-> 5, x |-> ux, y |-> 20, type |-> PowerUpTypes[k],
                         speed |-> 50, width |-> 30, height |-> 30]>>
        /\ lastFrameTime = 15600
        /\ enemySpawnTimer = 1500
        /\ powerUpSpawnTimer = 500
        /\ stageTimer = 164500
        /\ chargeStartTime = 0
        /\ currentChargeLevel = 0
        /\ timeouts = {}
        /\ now = 16100
        /\ nextId = 6
        /\ emitted = <<>>
        /\ pausedFor = 0
        /\ bottomCount = 0
        /\ decayed = 500
        /\ lastRequest = [any |-> FALSE, since |-> 500, spaced |-> FALSE, wall |-> TRUE, ticks |-> TRUE]

\* pauses: a pickup followed by 10 s of play or pause, with the ability buttons
NextPaused ==
    \/ pauseGame
    \/ \E d \in {500} \cup StepsIdle : PausedStep(d) /\ Advance(d, MaxNowPaused)
    \/ controlsSpecialAbility
    \/ controlsShield
    \/ abilityTimeout
    \/ powerupTimeout
    \/ Tick

SpecPaused == InitPickup /\ [][NextPaused]_vars

-----------------------------------------------------------------------------
(* Session claims, under SpecSession *)

StatusOf(gs) == gs.gameStatus

\* the status changes the specification lists
ListedTransitions ==
    {<<"menu", "playing">>, <<"playing", "paused">>, <<"paused", "playing">>,
     <<"playing", "gameOver">>, <<"gameOver", "menu">>, <<"gameOver", "playing">>}

\* C1 as stated: the status changes only along menu->playing, playing->paused,
\* paused->playing, playing->gameOver, gameOver->menu and gameOver->playing.
C1_OnlyListedTransitions ==
    [][StatusOf(gameState') # StatusOf(gameState)
          => <<StatusOf(gameState), StatusOf(gameState')>> \in ListedTransitions]_vars

\* C1 as amended: the status changes only along the listed transitions and
\* paused->menu (Quit Game on the pause screen), with startGame issued from the
\* menu and game-over screens, set-status-to-menu from the pause and game-over
\* screens, pauseGame in any status and enemy-reached-bottom events from frames.
C1_TransitionsWithQuit ==
    [][StatusOf(gameState') # StatusOf(gameState)
          => <<StatusOf(gameState), StatusOf(gameState')>>
                 \in ListedTransitions \cup {<<"paused", "menu">>}]_vars

\* a session left from the pause screen: in the menu with health lost but not all of it
C1_Witness ==
    /\ StatusOf(gameState) = "menu"
    /\ gameState.health \in 1..2

\* a frame that computed a frame time
FrameStep == lastFrameTime # 0 /\ lastFrameTime' # lastFrameTime

\* C2 as stated: the frame after a resume advances the stage timer, the weapon
\* cooldown, the spawn accumulators and the enemy positions by its own frame
\* time only, not by the time spent paused.
C2_PauseAddsNoTime ==
    [][FrameStep =>
          LET own == (now - lastFrameTime) - pausedFor
          IN  /\ stageTimer > 0 => stageTimer' = stageTimer - own
              /\ player'.currentCooldown >= player.currentCooldown - own
              /\ enemySpawnTimer' <= enemySpawnTimer + own
              /\ powerUpSpawnTimer' <= powerUpSpawnTimer + own
              /\ \A i \in 1..Len(enemies), j \in 1..Len(enemies') :
                    enemies'[j].id = enemies[i].id
                        => enemies'[j].y <= enemies[i].y + Dist(enemies[i].speed, own)]_vars

\* C5 as stated: right after startGame no enemy, projectile or power-up exists
\* and the weapon cooldown, the timed power-ups and the stage timer have their
\* initial values.
C5_StartGameResetsSimulation ==
    emitted = <<[kind |-> "startGame", arg |-> 0]>>
        => /\ enemies = <<>>
           /\ projectiles = <<>>
           /\ powerUps = <<>>
           /\ player.currentCooldown = 0
           /\ \A type \in TimedPowerUps : ~player.powerUps[type].active
           /\ stageTimer = 180000

\* C7 as stated: session health is an integer in 0..3 in every reachable state.
C7_HealthInRange == gameState.health \in 0..3

\* C8: counting the enemy-reached-bottom events since startGame from health 3,
\* before the third the status is not gameOver and health is 3 minus the count,
\* the first and second leave the status playing, and the step that brings the
\* count to three sets the status to gameOver.
C8_GameOverOnThird ==
    /\ [](bottomCount < 3 => /\ StatusOf(gameState) # "gameOver"
                             /\ gameState.health = 3 - bottomCount)
    /\ [][bottomCount' > bottomCount /\ bottomCount' < 3
             => StatusOf(gameState') = "playing"]_vars
    /\ [][bottomCount < 3 /\ bottomCount' >= 3
             => StatusOf(gameState') = "gameOver"]_vars

\* the third event has happened, one event at a time
C8_Witness ==
    /\ bottomCount = 3
    /\ gameState.health = 0
    /\ StatusOf(gameState) = "gameOver"
    /\ Len(emitted) = 1

-----------------------------------------------------------------------------
(* Firing claims, under SpecFire *)

\* the step is a fire request (fireProjectile was called)
FireStep == emitted' # <<>> /\ emitted'[1].kind = "fire"

\* C9: a fire request issued while the current cooldown is > 0 adds no
\* projectile and leaves the current cooldown unchanged.
C9_CooldownGate ==
    [][FireStep /\ player.currentCooldown > 0
          => /\ projectiles' = projectiles
             /\ player'.currentCooldown = player.currentCooldown]_vars

\* a request was rejected while the weapon was cooling down
C9_Witness ==
    /\ emitted = <<[kind |-> "fire", arg |-> 0]>>
    /\ player.currentCooldown > 0

\* C10 as stated: in a run of plain fire requests with at least 500 ms of wall
\* clock between consecutive requests, every request creates one projectile.
C10_WallSpacedShotsFire ==
    (emitted # <<>> /\ emitted[1].kind = "fire" /\ lastRequest.wall)
        => emitted[1].arg = 1

\* what the code does give (C10 read on frame time): in a run of plain fire
\* requests where the frames that ran the cooldown step between consecutive
\* requests have frame times summing to at least 500 ms, every request
\* creates one projectile.
FrameSpacedShotsFire ==
    (emitted # <<>> /\ emitted[1].kind = "fire" /\ lastRequest.ticks)
        => emitted[1].arg = 1

\* a later request of such a run, 500 ms of frames after the one before, fired
FrameSpacedWitness ==
    /\ emitted = <<[kind |-> "fire", arg |-> 1]>>
    /\ lastRequest.ticks
    /\ lastRequest.spaced

-----------------------------------------------------------------------------
(* Collision claims *)

\* a frame that ran the whole of updateGameState, collisions included
CollisionFrame ==
    /\ FrameStep
    /\ ~(stageTimer > 0 /\ stageTimer - (now - lastFrameTime) <= 0)

\* the damage of the projectiles 1..pIndex that overlap enemy eIndex
RECURSIVE damageTaken(_, _)
damageTaken(eIndex, pIndex) ==
    IF pIndex = 0 THEN 0
    ELSE damageTaken(eIndex, pIndex - 1)
            + (IF Hits(pIndex, eIndex) THEN damageOf(projectiles[pIndex]) ELSE 0)

\* the enemies of the next state that carry the id of enemy eIndex
Remaining(eIndex) == {j \in 1..Len(enemies') : enemies'[j].id = enemies[eIndex].id}

\* enemy eIndex leaves in this frame for another reason than a projectile
LeavesOtherwise(eIndex) ==
    \/ Overlap(player, enemies[eIndex])
    \/ enemyCrossed(enemies[eIndex], now - lastFrameTime)

\* C3 as stated: in every frame in which projectiles overlap an enemy, the
\* enemy's health after the frame is its health before minus the damage of
\* those projectiles; the enemy is removed if and only if the result is <= 0,
\* and a hit that does not kill leaves it in the list with the reduced health.
C3_HitReducesHealth ==
    [][CollisionFrame =>
          \A eIndex \in 1..Len(enemies) :
              LET taken == damageTaken(eIndex, Len(projectiles))
                  after == enemies[eIndex].health - taken
              IN  taken > 0 =>
                      IF after <= 0 THEN Remaining(eIndex) = {}
                      ELSE ~LeavesOtherwise(eIndex) =>
                              /\ Remaining(eIndex) # {}
                              /\ \A j \in Remaining(eIndex) : enemies'[j].health = after]_vars

\* a shield is active: the collected power-up, or the manually activated one
ShieldActive(pl) == pl.powerUps.shield.active \/ pl.shieldActive

\* a freshly spawned enemy can cross the bottom within deltaTime
FreshCrosses(deltaTime) ==
    /\ canvasSize.width # 0
    /\ enemySpawnTimer + deltaTime >= spawnInterval(gameState.stage)
    /\ \E rand \in RandDraws :
          LET enemyConfig == getEnemyConfigForStage(gameState.stage, rand)
          IN  Dist(enemyConfig.speed, deltaTime) - enemyConfig.height > canvasSize.height

\* the enemy-reached-bottom events that moveEnemies may emit in this frame
FloorEvents ==
    Len(crossedEvents(enemies, now - lastFrameTime))
        + (IF FreshCrosses(now - lastFrameTime) THEN 1 ELSE 0)

\* the enemies overlapping the player that no projectile hits
Touching == {eIndex \in 1..Len(enemies) :
                /\ Overlap(player, enemies[eIndex])
                /\ lastHitter(eIndex) = 0}

\* C4 as stated: in a frame entered with a shield active, an enemy overlapping
\* the player costs no health and is not removed by the player check; in a
\* frame entered with no shield, each overlap emits one enemy-reached-bottom
\* event and removes that enemy.
C4_ShieldSuppressesCollision ==
    [][CollisionFrame =>
          IF ShieldActive(player)
          THEN /\ CountKind(emitted', "reachedBottom") <= FloorEvents
               /\ \A eIndex \in Touching :
                     ~enemyCrossed(enemies[eIndex], now - lastFrameTime)
                         => Remaining(eIndex) # {}
          ELSE /\ CountKind(emitted', "reachedBottom")
                     >= Cardinality({eIndex \in 1..Len(enemies) : Overlap(player, enemies[eIndex])})
               /\ \A eIndex \in Touching : Remaining(eIndex) = {}]_vars

\* the points of the destroyed events evs
RECURSIVE SumPoints(_)
SumPoints(evs) == IF evs = <<>> THEN 0 ELSE Head(evs).arg + SumPoints(Tail(evs))

\* C6 as stated: a frame in which a bomb is picked up while the enemy list
\* holds k enemies leaves the list empty and raises the score by 10 * k
\* through one destroyed event, next to the events of the projectile kills of
\* the frame, whatever collisions occur in it.
C6_BombClearsEnemies ==
    [][CollisionFrame /\ bombCollected =>
          /\ enemies' = <<>>
          /\ CountKind(emitted', "destroyed") = 1 + Len(destroyedEvents)
          /\ gameState'.score = gameState.score + 10 * Len(enemies)
                                    + SumPoints(destroyedEvents)]_vars

-----------------------------------------------------------------------------
(* Shot claims, under SpecShot *)

\* the step is a fire request that passed the cooldown gate
AcceptedShot == FireStep /\ emitted'[1].arg > 0

\* the projectile created last by the step
LastCreated == projectiles'[Len(projectiles')]

\* C11: the cooldown set by an accepted shot is 1000 ms if the shot is
\* special, otherwise 500 + 100 * level ms if its charge level is > 0,
\* otherwise 150 ms if rapidFire is active, otherwise 500 ms.
C11_CooldownOfShot ==
    [][AcceptedShot =>
          player'.currentCooldown =
              IF LastCreated.isSpecial THEN 1000
              ELSE IF LastCreated.chargeLevel > 0 THEN 500 + 100 * LastCreated.chargeLevel
              ELSE IF player.powerUps.rapidFire.active THEN 150
              ELSE 500]_vars

\* a charged shot under rapidFire was accepted: charged takes precedence
C11_Witness ==
    /\ emitted # <<>> /\ emitted[1].kind = "fire" /\ emitted[1].arg > 0
    /\ player.powerUps.rapidFire.active
    /\ projectiles[Len(projectiles)].chargeLevel = 2
    /\ ~projectiles[Len(projectiles)].isSpecial
    /\ player.currentCooldown = 700

\* the k-th projectile the step created
Created(k) == projectiles'[Len(projectiles) + k]

\* x of a single shot: the player's centre minus half the projectile's width
BaseX(q) == player.x + player.width \div 2 - q.width \div 2

\* a projectile without its position and identity
Apart(q) == [q EXCEPT !.x = 0, !.id = 0]

\* C12: with multiShot active a non-special accepted shot adds exactly three
\* projectiles, identical apart from their x (and their ids), at base x - 20,
\* base x and base x + 20; with multiShot inactive, or for a special shot, it
\* adds exactly one projectile at base x.
C12_MultiShotSpread ==
    [][AcceptedShot =>
          IF player.powerUps.multiShot.active /\ ~Created(1).isSpecial
          THEN /\ Len(projectiles') = Len(projectiles) + 3
               /\ Created(1).x = BaseX(Created(1)) - 20
               /\ Created(2).x = BaseX(Created(2))
               /\ Created(3).x = BaseX(Created(3)) + 20
               /\ Apart(Created(1)) = Apart(Created(2))
               /\ Apart(Created(3)) = Apart(Created(2))
               /\ Cardinality({Created(k).id : k \in 1..3}) = 3
          ELSE /\ Len(projectiles') = Len(projectiles) + 1
               /\ Created(1).x = BaseX(Created(1))]_vars

\* a multiShot shot was accepted: three projectiles in flight
C12_Witness ==
    /\ emitted = <<[kind |-> "fire", arg |-> 3]>>
    /\ player.powerUps.multiShot.active
    /\ Len(projectiles) = 3

\* the projectiles of the next state that carry the id of projectile pIndex
Flying(pIndex) == {j \in 1..Len(projectiles') : projectiles'[j].id = projectiles[pIndex].id}

\* C13 as stated: in every frame of frame time d a projectile of speed s that
\* no collision removes goes from y to y - s * d, and it is removed in the
\* first frame in which that value is < -height and in no earlier one.
C13_ProjectileMotion ==
    [][CollisionFrame =>
          \A pIndex \in 1..Len(projectiles) :
              ~projectileHit(pIndex) =>
                  LET newY == projectiles[pIndex].y
                                  - Dist(projectiles[pIndex].speed, now - lastFrameTime)
                  IN  IF newY < -projectiles[pIndex].height
                      THEN Flying(pIndex) = {}
                      ELSE /\ Flying(pIndex) # {}
                           /\ \A j \in Flying(pIndex) : projectiles'[j].y = newY]_vars

-----------------------------------------------------------------------------
(* Charge claim, under SpecFire *)

\* the step is an accepted release of a held press
AcceptedRelease == chargeStartTime # 0 /\ chargeStartTime' = 0 /\ AcceptedShot

\* C14: while a press is held the charge level shown never decreases and
\* never exceeds 5, and the level of the shot at release is
\* min(floor(elapsed / 300), 5) for the time elapsed since the press.
C14_ChargeLevel ==
    /\ [][chargeStartTime # 0 /\ chargeStartTime' = chargeStartTime
             => currentChargeLevel' >= currentChargeLevel]_vars
    /\ [](currentChargeLevel <= 5)
    /\ [][AcceptedRelease =>
             /\ LastCreated.chargeLevel = Min((now - chargeStartTime) \div 300, 5)
             /\ LastCreated.chargeLevel <= 5]_vars

\* a press held for 2000 ms was released as a shot of level 5
C14_Witness ==
    /\ emitted = <<[kind |-> "fire", arg |-> 1]>>
    /\ chargeStartTime = 0
    /\ projectiles[Len(projectiles)].chargeLevel = 5
    /\ lastRequest.since = 0
    /\ now >= 2100

-----------------------------------------------------------------------------
(* Frame loop claim, under SpecSession *)

\* C15: while the status is menu, paused or gameOver no frame runs: no step
\* taken in those statuses changes the enemies, the projectiles, the
\* power-ups, the spawn accumulators, the stage timer, the weapon cooldown,
\* the power-up durations or the time of the last frame.
C15_NoFrameOutsidePlaying ==
    [][StatusOf(gameState) # "playing" =>
          /\ UNCHANGED <<enemies, projectiles, powerUps, enemySpawnTimer,
                         powerUpSpawnTimer, stageTimer, lastFrameTime>>
          /\ player'.currentCooldown = player.currentCooldown
          /\ player'.powerUps = player.powerUps]_vars

\* time has passed on the pause screen with an enemy on the playfield
C15_Witness ==
    /\ StatusOf(gameState) = "paused"
    /\ pausedFor > 0
    /\ enemies # <<>>

-----------------------------------------------------------------------------
(* Ability claims, under SpecAbility and SpecSpecial *)

\* a timeout of the given kind that has not come due
Pending(kind) == \E t \in timeouts : t.kind = kind /\ t.due > now

\* C16: after every activation of the manual shield the shield is active
\* for the whole of the following 3000 ms and the cooldown of the ability is
\* non-zero for the following 10000 ms, whatever activations, pauses and
\* restarts come before or in between.  An activation less than 3000 ms
\* (10000 ms) ago is one whose shieldOff (shieldCooldownOff) timeout has not
\* come due.
C16_ShieldLastsAndCoolsDown ==
    /\ Pending("shieldOff") => gameState.shieldActive
    /\ Pending("shieldCooldownOff") => gameState.shieldCooldown # 0

\* a step that is a request of the special button
SpecialRequest == emitted' # <<>> /\ emitted'[1].kind = "special"

Specials(list) == {k \in 1..Len(list) : list[k].isSpecial}

\* C18: triggers of the controls reach the simulation: an accepted shoot
\* trigger with weapon cooldown 0 adds a projectile, an accepted special
\* trigger adds exactly one special projectile, an accepted shield trigger
\* sets the shield flag of the player that the collision check reads, and a
\* move trigger on a measured playfield changes the x of the player.
C18_TriggersReachSimulation ==
    [][/\ (emitted' = <<[kind |-> "shoot", arg |-> 1]>> /\ player.currentCooldown = 0)
           => Len(projectiles') = Len(projectiles) + 1
       /\ emitted' = <<[kind |-> "special", arg |-> 1]>>
           => /\ Len(projectiles') = Len(projectiles) + 1
              /\ Cardinality(Specials(projectiles')) = Cardinality(Specials(projectiles)) + 1
       /\ emitted' = <<[kind |-> "shield", arg |-> 1]>>
           => player'.shieldActive
       /\ (emitted' # <<>> /\ emitted'[1].kind = "move" /\ canvasSize.width # 0)
           => player'.x # player.x]_vars

-----------------------------------------------------------------------------
(* Movement claim, under SpecMove *)

\* C19: once the playfield is measured every movePlayer(targetX) sets
\* player.x to targetX clamped into [0, playfield width - player width], so
\* player.x stays in that range; while the playfield width is 0 no step
\* changes player.x until the playfield is measured.
C19_MoveClamps ==
    /\ [](canvasSize.width # 0
            => player.x >= 0 /\ player.x <= canvasSize.width - player.width)
    /\ [][/\ \A targetX \in MoveTargetsInside :
                 movePlayer(targetX)
                    => player'.x = (IF targetX < 0 THEN 0
                                    ELSE IF targetX > canvasSize.width - player.width
                                         THEN canvasSize.width - player.width
                                         ELSE targetX)
          /\ (canvasSize.width = 0 /\ canvasSize' = canvasSize)
                 => player'.x = player.x]_vars

\* the player after a move to a position inside the range, a frame later
C19_Witness ==
    /\ canvasSize.width # 0
    /\ player.x = 10
    /\ lastFrameTime > 100

-----------------------------------------------------------------------------
(* Stage claim, under SpecStage *)

\* C20: within a session, that is between two calls of startGame, the stage
\* is at least 1 and never decreases: every change of it is an increase by
\* exactly 1 made by a time-expired event.
C20_StageOnlyAdvances ==
    /\ [](gameState.stage >= 1)
    /\ [][(gameState'.stage # gameState.stage
             /\ emitted' # <<[kind |-> "startGame", arg |-> 0]>>)
            => /\ gameState'.stage = gameState.stage + 1
               /\ emitted' = <<[kind |-> "timeExpired", arg |-> 0]>>]_vars

\* the frame in which the countdown of stage 1 has run out
C20_Witness ==
    /\ gameState.stage = 2
    /\ emitted = <<[kind |-> "timeExpired", arg |-> 0]>>
    /\ stageTimer <= 0

-----------------------------------------------------------------------------
(* Frame order claims, under SpecFine *)

\* projectile pIndex and enemy eIndex at the positions this frame's movement
\* gives them
MovedProjectile(pIndex) ==
    [projectiles[pIndex] EXCEPT
        !.y = projectiles[pIndex].y - Dist(projectiles[pIndex].speed, now - lastFrameTime)]

MovedEnemy(eIndex) ==
    [enemies[eIndex] EXCEPT !.y = enemyNewY(enemies[eIndex], now - lastFrameTime)]

\* the pair overlaps only after this frame's movement, and the movement
\* removes neither of the two
MeetsAfterMove(pIndex, eIndex) ==
    /\ ~Hits(pIndex, eIndex)
    /\ ~projectileGone(projectiles[pIndex], now - lastFrameTime)
    /\ ~enemyCrossed(enemies[eIndex], now - lastFrameTime)
    /\ Overlap(MovedProjectile(pIndex), MovedEnemy(eIndex))

\* C21 as stated: the collision test of a frame is evaluated on the
\* positions the frame's movement gives: a projectile and an enemy that
\* overlap only after the movement are resolved in the same frame, so the
\* projectile is gone after it.
C21_CollisionAfterMovement ==
    [][CollisionFrame =>
          \A pIndex \in 1..Len(projectiles), eIndex \in 1..Len(enemies) :
              MeetsAfterMove(pIndex, eIndex) => Flying(pIndex) = {}]_vars

\* some entity is removed by a collision in this frame
CollisionRemoves ==
    \/ enemiesDestroyed
    \/ \E pIndex \in 1..Len(projectiles) : projectileHit(pIndex)
    \/ collectedIdx # <<>>

\* the power-ups of the next state that carry the id of power-up index
Falling(index) == {j \in 1..Len(powerUps') : powerUps'[j].id = powerUps[index].id}

\* C22 as stated: in a frame in which a collision removes some entity, every
\* other enemy, projectile and power-up keeps the result of that frame's
\* movement: it is at its moved position, or stays removed for having left
\* the playfield.
C22_CollisionKeepsMovement ==
    [][CollisionFrame /\ CollisionRemoves =>
          LET deltaTime == now - lastFrameTime
          IN  /\ \A eIndex \in 1..Len(enemies) :
                     (~nulledByProjectile(eIndex) /\ ~Overlap(player, enemies[eIndex]))
                        => IF enemyCrossed(enemies[eIndex], deltaTime)
                           THEN Remaining(eIndex) = {}
                           ELSE \E j \in Remaining(eIndex) :
                                    enemies'[j].y = enemyNewY(enemies[eIndex], deltaTime)
              /\ \A pIndex \in 1..Len(projectiles) :
                     ~projectileHit(pIndex)
                        => IF projectileGone(projectiles[pIndex], deltaTime)
                           THEN Flying(pIndex) = {}
                           ELSE \E j \in Flying(pIndex) :
                                    projectiles'[j].y = MovedProjectile(pIndex).y
              /\ \A index \in 1..Len(powerUps) :
                     ~Collected(index)
                        => IF powerUps[index].y + Dist(powerUps[index].speed, deltaTime)
                                  > canvasSize.height
                           THEN Falling(index) = {}
                           ELSE \E j \in Falling(index) :
                                    powerUps'[j].y = powerUps[index].y
                                                        + Dist(powerUps[index].speed, deltaTime)]_vars

-----------------------------------------------------------------------------
(* Stage countdown claim, under SpecExpiry *)

\* the frame in which the stage countdown reaches <= 0
ExpiryTick ==
    /\ FrameStep
    /\ stageTimer > 0
    /\ stageTimer - (now - lastFrameTime) <= 0

\* C23: the frame in which the stage countdown reaches <= 0 emits exactly one
\* time-expired event, which raises the stage by exactly 1, and performs no
\* spawn check, cooldown decay, power-up decay, movement or collision step;
\* no other step emits a time-expired event.
C23_ExpirySkipsFrame ==
    [][IF ExpiryTick
       THEN /\ CountKind(emitted', "timeExpired") = 1
            /\ Len(emitted') = 1
            /\ gameState'.stage = gameState.stage + 1
            /\ enemySpawnTimer' = enemySpawnTimer
            /\ powerUpSpawnTimer' = powerUpSpawnTimer
            /\ player' = player
            /\ enemies' = enemies
            /\ projectiles' = projectiles
            /\ powerUps' = powerUps
            /\ gameState'.health = gameState.health
            /\ gameState'.score = gameState.score
       ELSE CountKind(emitted', "timeExpired") = 0]_vars

\* the expiry frame has left alone a weapon that was cooling down, a
\* projectile in flight and an enemy on the player
C23_Witness ==
    /\ emitted = <<[kind |-> "timeExpired", arg |-> 0]>>
    /\ player.currentCooldown > 0
    /\ projectiles # <<>>
    /\ \E eIndex \in 1..Len(enemies) : Overlap(player, enemies[eIndex])

-----------------------------------------------------------------------------
(* Pickup claim, under SpecPickup *)

\* the collected events of a list that carry the given kind
CollectedOf(evs, type) ==
    Len(SelectSeq(evs, LAMBDA e : e.kind = "collected" /\ e.arg = type))

\* the entries of a list equal to the given kind
Occurrences(list, type) == Len(SelectSeq(list, LAMBDA q : q = type))

\* C24 as stated: for every power-up the player overlaps in a frame, the
\* power-up is removed from the list and exactly one collected event with
\* its kind is emitted, so the active power-ups of the session gain that
\* kind once per pickup.
C24_OneCollectedEvent ==
    [][CollisionFrame =>
          /\ \A index \in 1..Len(powerUps) : Collected(index) => Falling(index) = {}
          /\ \A type \in {PowerUpTypes[k] : k \in 1..Len(PowerUpTypes)} :
                LET pickups == Cardinality({index \in 1..Len(powerUps) :
                                               Collected(index) /\ powerUps[index].type = type})
                IN  /\ CollectedOf(emitted', type) = pickups
                    /\ Occurrences(gameState'.activePowerups, type)
                           = Occurrences(gameState.activePowerups, type) + pickups]_vars

-----------------------------------------------------------------------------
(* Enemy destruction claims, under SpecFine *)

\* the enemies some projectile of this frame brings to health <= 0
Killed == {eIndex \in 1..Len(enemies) :
              \E pIndex \in 1..Len(projectiles) : Lethal(pIndex, eIndex)}

\* the points of the killed enemies among the first k enemies
RECURSIVE KilledPoints(_)
KilledPoints(k) ==
    IF k = 0 THEN 0
    ELSE KilledPoints(k - 1) + (IF k \in Killed THEN points(enemies[k].type) ELSE 0)

\* C25 as stated: an enemy whose health reaches <= 0 through projectile hits
\* gives exactly one destroyed event, carrying the points of its type, and
\* is not in the enemy list afterwards, also when several projectiles
\* overlap it in one frame.
C25_OneDestroyedEvent ==
    [][CollisionFrame /\ ~bombCollected =>
          /\ CountKind(emitted', "destroyed") = Cardinality(Killed)
          /\ gameState'.score = gameState.score + KilledPoints(Len(enemies))
          /\ \A eIndex \in Killed : Remaining(eIndex) = {}]_vars

-----------------------------------------------------------------------------
(* Enemy health claim, under SpecArmored *)

\* C26: every enemy in the enemy list has health > 0 in every reachable
\* state.
C26_EnemiesAlive == \A eIndex \in 1..Len(enemies) : enemies[eIndex].health > 0

\* the frame in which a projectile has brought an enemy to health <= 0
C26_Witness ==
    /\ CountKind(emitted, "destroyed") > 0
    /\ lastFrameTime = now
    /\ gameState.score > 0

-----------------------------------------------------------------------------
(* Release claim, under SpecRelease *)

\* a step that is a press-up
PressUp == emitted' # <<>> /\ emitted'[1].kind \in {"fire", "release"}

\* C27 as stated: after every press-up that follows a press-down the charge
\* state is cleared (no charge start time, charge level 0) whether or not a
\* projectile was created; with the weapon cooling down at the release no
\* projectile is created and the cooldown is unchanged.
C27_ReleaseClearsCharge ==
    [][PressUp /\ chargeStartTime # 0
          => /\ chargeStartTime' = 0
             /\ currentChargeLevel' = 0
             /\ player.currentCooldown > 0
                   => /\ projectiles' = projectiles
                      /\ player'.currentCooldown = player.currentCooldown]_vars

-----------------------------------------------------------------------------
(* Projectile attribute claims, under SpecKinds *)

\* the player of this state without rapidFire
Unboosted == [player EXCEPT !.powerUps.rapidFire = NoPowerUp]

\* the projectile the shot of this step would create without rapidFire
Reference == newProjectiles(Unboosted, LastCreated.isSpecial, LastCreated.chargeLevel, 0)[1]

\* C28 as stated: under rapidFire an accepted shot's projectile has speed
\* min(1.4 * s, 1.0) and damage 1.2 * dmg, s and dmg being the values of the
\* same shot without rapidFire; for every bullet kind, charge level and
\* special flag its speed and damage are not lower, and the cooldown set is
\* not longer, than for the same shot without rapidFire.
C28_RapidFireBoosts ==
    [][AcceptedShot /\ player.powerUps.rapidFire.active =>
          /\ LastCreated.speed = Min((Reference.speed * 14) \div 10, 1000)
          /\ LastCreated.damage = (Reference.damage * 12) \div 10
          /\ LastCreated.speed >= Reference.speed
          /\ LastCreated.damage >= Reference.damage
          /\ player'.currentCooldown
                 <= cooldownTime(Unboosted, LastCreated.isSpecial, LastCreated.chargeLevel)]_vars

\* C29: a special shot's projectile has twice the width and 1.5 times the
\* height of the bullet kind's base size and, before the rapid-fire
\* modifier, speed 0.7 and damage 3, whatever the bullet kind and the charge
\* level passed; a shot that is not special with charge level L > 0 has
\* width + 2L and height + 3L and, before the rapid-fire modifier,
\* speed + 0.05L and damage + floor(L / 2) over the base values.
C29_SpecialAndChargedShots ==
    [][AcceptedShot =>
          LET q == LastCreated
              base == BulletBase(player.currentBulletType)
              level == q.chargeLevel
              rapid == player.powerUps.rapidFire.active
          IN  IF q.isSpecial
              THEN /\ q.width = 2 * base.width
                   /\ 2 * q.height = 3 * base.height
                   /\ ~rapid => q.speed = 700 /\ q.damage = 300
              ELSE level > 0 =>
                   /\ q.width = base.width + 2 * level
                   /\ q.height = base.height + 3 * level
                   /\ ~rapid => /\ q.speed = base.speed + 50 * level
                                /\ q.damage = base.damage + 100 * (level \div 2)]_vars

\* a special laser shot requested with charge level 5
C29_Witness ==
    /\ emitted # <<>> /\ emitted[1].kind = "fire" /\ emitted[1].arg > 0
    /\ projectiles[Len(projectiles)].isSpecial
    /\ projectiles[Len(projectiles)].chargeLevel = 5
    /\ projectiles[Len(projectiles)].bulletType = "laser"
    /\ projectiles[Len(projectiles)].width = 12
    /\ projectiles[Len(projectiles)].height = 45
    /\ projectiles[Len(projectiles)].speed = 700

-----------------------------------------------------------------------------
(* Enemy spawning claim, under SpecPickup *)

\* the enemies of the next state that were not in the list before the step
Added == {j \in 1..Len(enemies') :
             \A eIndex \in 1..Len(enemies) : enemies[eIndex].id # enemies'[j].id}

\* C30 as stated: on a measured playfield the spawn accumulator grows by the
\* frame time of every frame; in the frame in which it reaches
\* max(2000 - 100 * stage, 500) ms it is reset to 0 and exactly one enemy is
\* added, created at y = -height with x in [0, playfield width - width]
\* (unless this frame's movement already takes it past the bottom); in every
\* other frame no enemy is added.  Frames in which a bomb clears the list
\* are left aside.
C30_SpawnAtInterval ==
    [][CollisionFrame /\ canvasSize.width # 0 /\ ~bombCollected =>
          LET deltaTime == now - lastFrameTime
              stage == gameState.stage
              interval == IF 2000 - 100 * stage > 500 THEN 2000 - 100 * stage ELSE 500
          IN  IF enemySpawnTimer + deltaTime >= interval
              THEN /\ enemySpawnTimer' = 0
                   /\ Cardinality(Added) <= 1
                   /\ \A j \in Added :
                         /\ enemies'[j].x >= 0
                         /\ enemies'[j].x <= canvasSize.width - enemies'[j].width
                         /\ enemies'[j].y = Dist(enemies'[j].speed, deltaTime) - enemies'[j].height
                   /\ Added = {} =>
                         \A rand \in RandDraws :
                            LET enemyConfig == getEnemyConfigForStage(stage, rand)
                            IN  Dist(enemyConfig.speed, deltaTime) - enemyConfig.height
                                   > canvasSize.height
              ELSE /\ enemySpawnTimer' = enemySpawnTimer + deltaTime
                   /\ Added = {}]_vars

-----------------------------------------------------------------------------
(* Enemy table claim, under SpecSpawn *)

\* the kind the claim gives for a stage and a draw (hundredths)
KindFor(stage, r) ==
    IF stage >= 10 /\ r < 10 THEN "boss"
    ELSE IF stage >= 5 /\ r < 30 THEN "armored"
    ELSE IF stage >= 3 /\ r < 40 THEN "fast"
    ELSE "basic"

\* the stats the claim gives for a kind: health (hundredths), speed
\* (thousandths of px/ms), width, height
StatsFor(type) ==
    CASE type = "basic"   -> <<100, 50, 40, 40>>
      [] type = "armored" -> <<300, 30, 50, 50>>
      [] type = "fast"    -> <<100, 100, 30, 30>>
      [] type = "boss"    -> <<1000, 20, 80, 80>>

\* C31: for every stage and draw r the spawned enemy is boss if stage >= 10
\* and r < 0.1, else armored if stage >= 5 and r < 0.3, else fast if
\* stage >= 3 and r < 0.4, else basic, with the stats of its kind; below
\* stage 3 only basic enemies are spawned, and none is of kind special.
C31_EnemyTable ==
    /\ \A eIndex \in 1..Len(enemies) :
          LET e == enemies[eIndex]
          IN  /\ e.type \in {"basic", "armored", "fast", "boss"}
              /\ <<e.health, e.speed, e.width, e.height>> = StatsFor(e.type)
              /\ gameState.stage < 3 => e.type = "basic"
    /\ (emitted # <<>> /\ emitted[1].kind = "spawn")
          => enemies[Len(enemies)].type = KindFor(gameState.stage, emitted[1].arg)

\* at stage 10 a draw of exactly 0.1 misses the boss and gives an armored enemy
C31_Witness ==
    /\ gameState.stage = 10
    /\ emitted = <<[kind |-> "spawn", arg |-> 10]>>
    /\ enemies[Len(enemies)].type = "armored"

-----------------------------------------------------------------------------
(* Timed power-up claim, under SpecDecay *)

\* the power-up kinds collected in the frame being taken
PickedKinds == {powerUps[collectedIdx[k]].type : k \in 1..Len(collectedIdx)}

\* the full duration the claim gives for a timed power-up
FullDuration(type) ==
    CASE type = "rapidFire" -> 10000
      [] type = "shield"    -> 15000
      [] type = "multiShot" -> 8000

\* C32: for each timed power-up 0 <= remaining <= duration and active implies
\* remaining > 0; a frame of d ms lowers the remaining time of an active
\* power-up by d, and a result <= 0 leaves it inactive with remaining 0; a
\* pickup sets remaining to the full duration.
C32_TimedPowerUps ==
    [][ /\ \A type \in TimedPowerUps :
              LET u == player.powerUps[type]'
              IN  /\ 0 <= u.remaining /\ u.remaining <= u.duration
                  /\ u.active => u.remaining > 0
        /\ CollisionFrame =>
              \A type \in TimedPowerUps :
                  LET u == player.powerUps[type]
                      d == now - lastFrameTime
                  IN  IF type \in PickedKinds
                      THEN player.powerUps[type]' =
                              [active |-> TRUE, duration |-> FullDuration(type),
                               remaining |-> FullDuration(type)]
                      ELSE u.active =>
                              player.powerUps[type]' =
                                 (IF u.remaining - d <= 0
                                  THEN [u EXCEPT !.active = FALSE, !.remaining = 0]
                                  ELSE [u EXCEPT !.remaining = u.remaining - d])
      ]_vars

-----------------------------------------------------------------------------
(* Pause claim, under SpecPaused *)

\* the delay the claim gives for each callback
DelayOf(kind) ==
    CASE kind = "shieldOff"          -> 3000
      [] kind = "shieldCooldownOff"  -> 10000
      [] kind = "specialCooldownOff" -> 5000
      [] kind = "expirePowerup"      -> 10000

\* a callback of the kind (and argument) is pending and due within its delay
DueWithin(ts, at, kind, arg) ==
    \E t \in ts : /\ t.kind = kind
                  /\ t.arg = arg
                  /\ at <= t.due
                  /\ t.due <= at + DelayOf(kind)

\* C33: while the status is paused no frame runs, but the wall-clock
\* callbacks still fire: the shield is off 3000 ms after its activation, and
\* the shield cooldown, the special cooldown and the active-power-up entries
\* expire 10000, 5000 and 10000 ms after they were set, paused or not.
C33_CallbacksWhilePaused ==
    [][ /\ gameState.gameStatus = "paused" => canvasVars' = canvasVars
        /\ \A t \in timeouts' \ timeouts : t.due = now + DelayOf(t.kind)
        /\ \A t \in timeouts \ timeouts' :
              /\ t.due = now
              /\ t.kind = "shieldOff" => ~gameState.shieldActive'
              /\ t.kind = "shieldCooldownOff" => gameState.shieldCooldown' = 0
              /\ t.kind = "specialCooldownOff" => gameState.specialAbilityCooldown' = 0
              /\ t.kind = "expirePowerup" =>
                    \A k \in 1..Len(gameState.activePowerups') :
                        gameState.activePowerups'[k] # t.arg
        /\ gameState.shieldActive' => DueWithin(timeouts', now', "shieldOff", "")
        /\ gameState.shieldCooldown' # 0 => DueWithin(timeouts', now', "shieldCooldownOff", "")
        /\ gameState.specialAbilityCooldown' # 0
              => DueWithin(timeouts', now', "specialCooldownOff", "")
        /\ \A k \in 1..Len(gameState.activePowerups') :
              DueWithin(timeouts', now', "expirePowerup", gameState.activePowerups'[k])
      ]_vars

\* paused for the 3000 ms since the shield was activated: the shield is off
\* again while its cooldown, the special cooldown and the collected entry
\* are still waiting for their callbacks
C33_Witness ==
    /\ gameState.gameStatus = "paused"
    /\ pausedFor = 3000
    /\ ~gameState.shieldActive
    /\ gameState.shieldCooldown = 10
    /\ gameState.specialAbilityCooldown = 5
    /\ gameState.activePowerups # <<>>
    /\ \E t \in timeouts : t.kind = "shieldCooldownOff" /\ t.due = now + 7000

-----------------------------------------------------------------------------
(* One health loss per enemy *)

\* the ids of the enemies in a list
IdsOf(es) == {es[k].id : k \in 1..Len(es)}

\* C34: each enemy causes at most one health-loss event: a frame emits no
\* more enemy-reached-bottom events than enemies leave the collection in it
\* (one more for an enemy that crosses in the frame that spawns it), and an
\* enemy that crossed the bottom edge or touched the unshielded player is
\* absent afterwards.
C34_OneLossPerEnemy ==
    [][CollisionFrame =>
          /\ CountKind(emitted', "reachedBottom")
                <= Cardinality(IdsOf(enemies) \ IdsOf(enemies'))
                     + (IF FreshCrosses(now - lastFrameTime) THEN 1 ELSE 0)
          /\ \A eIndex \in 1..Len(enemies) :
                (\/ enemies[eIndex].y + Dist(enemies[eIndex].speed, now - lastFrameTime)
                        > canvasSize.height
                 \/ (~player.shieldActive /\ Overlap(player, enemies[eIndex])))
                   => enemies[eIndex].id \notin IdsOf(enemies')
    ]_vars

-----------------------------------------------------------------------------
(* Countdown restart claim, under SpecExpiry *)

\* C35: the stage countdown restarts after each time-expired event, so that
\* a session that stays in status playing gets a further event (and stage)
\* after each further 180 s: the frame that emits time-expired leaves a
\* running countdown, and every later frame of the session counts down.
C35_CountdownRestarts ==
    [][ /\ CountKind(emitted', "timeExpired") > 0 => stageTimer' > 0
        /\ (FrameStep /\ gameState.stage > 1) => stageTimer' < stageTimer
      ]_vars

-----------------------------------------------------------------------------
(* Health claim, under SpecSession *)

\* C36: the status is playing only while health > 0, whatever sequence of
\* startGame, pauseGame, set-status-to-menu and enemy-reached-bottom events
\* led to the state.
C36_PlayingHasHealth ==
    gameState.gameStatus = "playing" => gameState.health > 0

-----------------------------------------------------------------------------
(* Stale callback claim, under SpecAbility *)

\* C37: no delayed callback scheduled before a startGame changes the session
\* after it, and a timer of the old session never shortens a window or
\* cooldown started in the new one: a callback that changes the session is
\* the one of the latest activation of its kind, none of that kind with a
\* later due time is pending.
C37_NoStaleCallbacks ==
    [][\A t \in timeouts \ timeouts' :
          gameState' # gameState =>
              ~\E u \in timeouts' : /\ u.kind = t.kind
                                    /\ u.arg = t.arg
                                    /\ u.due > t.due
    ]_vars

-----------------------------------------------------------------------------
(* Pointer input outside play, under SpecMove *)

\* a step of the playfield's own handlers: no time passes, the session, the
\* layout and the pending callbacks stay as they are
PlayfieldInput ==
    /\ now' = now
    /\ gameState' = gameState
    /\ canvasSize' = canvasSize
    /\ timeouts' = timeouts

\* C38: while the status is menu, paused or gameOver, pointer input on the
\* playfield changes no simulation state: player x, the projectiles, the
\* charge state and the weapon cooldown are unchanged.
C38_InputIgnoredOutsidePlay ==
    [][(gameState.gameStatus \in {"menu", "paused", "gameOver"} /\ PlayfieldInput) =>
          /\ player.x' = player.x
          /\ projectiles' = projectiles
          /\ chargeStartTime' = chargeStartTime
          /\ currentChargeLevel' = currentChargeLevel
          /\ player.currentCooldown' = player.currentCooldown
    ]_vars

-----------------------------------------------------------------------------
(* Single hit claim, under SpecPair *)

\* the projectiles that overlap some enemy in the frame being taken
Striking == {pIndex \in 1..Len(projectiles) :
                \E eIndex \in 1..Len(enemies) :
                    Overlap(projectiles[pIndex], enemies[eIndex])}

\* the enemies that a projectile overlaps and that leave the frame with less
\* health or not at all
Struck == {eIndex \in 1..Len(enemies) :
              /\ \E pIndex \in 1..Len(projectiles) :
                    Overlap(projectiles[pIndex], enemies[eIndex])
              /\ \A j \in 1..Len(enemies') :
                    enemies'[j].id = enemies[eIndex].id
                        => enemies'[j].health < enemies[eIndex].health}

\* C39: a projectile is consumed by a single hit: in one frame each
\* projectile reduces the health of at most one enemy, so no more enemies are
\* struck or destroyed than projectiles strike, and a projectile that
\* overlapped an enemy is absent from the projectile collection after the
\* frame.
C39_SingleHit ==
    [][CollisionFrame =>
          /\ Cardinality(Struck) <= Cardinality(Striking)
          /\ CountKind(emitted', "destroyed") <= Cardinality(Striking)
          /\ \A pIndex \in Striking : Flying(pIndex) = {}
    ]_vars

=============================================================================
